---- MODULE Spec2Model ----
(***************************************************************************)
(* lsmtree: the dual-region allocator (freespace.go), the dual-region WAL  *)
(* segment (openWalSegment / walSegment.Append) and the value file         *)
(* (openValueFile / valueFile.Write / valueFile.Read), the file names      *)
(* (files.go), walSegment.Sync, the transaction codec, DB.Close and the    *)
(* background writer, the walManager, the valueManager and the walSegment  *)
(* with a single Offset counter (wal.go).                                  *)
(*                                                                         *)
(* The allocator is one uint64 that Allocate changes with atomic adds.     *)
(* A 64-bit word is kept here as four 16-bit limbs, most significant       *)
(* first, so that every carry and borrow of the Go arithmetic is computed  *)
(* exactly: <<w1, w2>> is the upper 32 bits (front cursor), <<w3, w4>> the *)
(* lower 32 bits (back cursor).                                            *)
(***************************************************************************)
EXTENDS Integers, Sequences, FiniteSets, TLC

\* ------------------------------------------------------------------ bounds
NProcs == 2
MaxCalls == 3
MaxLen == 2
AllocCapacity == 12
MaxAppends == 3
MaxShort == 1
MaxOpens == 1
MaxWrites == 3
MaxFaults == 1
MaxFaultWrites == 2
MaxValueLen == 2
MaxNames == 2
MaxSyncs == 2
MaxEntries == 2
NClosers == 2
MaxCommits == 3
PendingWritesBuffer == 2
MaxManagerAppends == 5
ManagerCapacity == 128
MaxWALSegmentSize == 55
MaxLookups == 3
NFileIds == 2
MaxSingleAppends == 3
SmallCapacity == 64
SegCapacity == 120

\* ------------------------------------------------------ program constants
Limb == 65536
ReservedPrefix == 8
HeaderSize == 16
Byte == 256
walTransactionChangeTypeSet == 0
walTransactionChangeTypeDelete == 1
ChecksumSize == 4

Procs == 1..NProcs

\* ------------------------------------------------- 64-bit word arithmetic
\* uint64 addition modulo 2^64 (atomic.AddUint64 returns the new value).
Add64(a, b) ==
    LET s4 == a[4] + b[4]
        s3 == a[3] + b[3] + (s4 \div Limb)
        s2 == a[2] + b[2] + (s3 \div Limb)
        s1 == a[1] + b[1] + (s2 \div Limb)
    IN  <<s1 % Limb, s2 % Limb, s3 % Limb, s4 % Limb>>

\* -x on a uint64: two's complement.
Neg64(a) ==
    Add64(<<Limb - 1 - a[1], Limb - 1 - a[2], Limb - 1 - a[3], Limb - 1 - a[4]>>,
          <<0, 0, 0, 1>>)

\* uint64(n) of a Go int n with |n| < 2^31.
U64(n) ==
    IF n >= 0 THEN <<0, 0, n \div Limb, n % Limb>>
    ELSE Neg64(<<0, 0, (-n) \div Limb, (-n) % Limb>>)

\* x << 32 on a uint64.
Shl32(a) == <<a[3], a[4], 0, 0>>

\* x & 0xffffffff
Low32(a) == <<0, 0, a[3], a[4]>>

\* x | y, for the only use the code makes of it: y has no bit in the upper
\* half and x has none in the lower half.
Or64(a, b) == <<a[1], a[2], b[3], b[4]>>

\* int32(x) of a 32-bit pattern given as two limbs.
Int32(hi, lo) == IF hi >= Limb \div 2 THEN (hi - Limb) * Limb + lo ELSE hi * Limb + lo

\* int32(result>>32) and int32(result)
Front(w) == Int32(w[1], w[2])
Back(w) == Int32(w[3], w[4])

\* newEnd - newStart in int32 arithmetic (wraps modulo 2^32).
SubUint32(w) ==
    LET l == w[4] - w[2]
        b == IF l < 0 THEN 1 ELSE 0
        h == w[3] - w[1] - b
    IN  (h % Limb) * (Limb \div 2) + (l % Limb) \div 2
SubInt32(w) ==
    LET l == w[4] - w[2]
        b == IF l < 0 THEN 1 ELSE 0
        h == w[3] - w[1] - b
    IN  Int32(h % Limb, l % Limb)

\* ------------------------------------------------------------ freeSpace
newFreeSpace(size) == Or64(Shl32(U64(ReservedPrefix)), U64(size))

\* delta := uint64(headerSize)<<32 | (uint64(dataSize) & 0xffffffff) - 1<<32
\* Go gives << and & a higher precedence than | and -, which associate to
\* the left: ((headerSize<<32) | (dataSize & 0xffffffff)) - (1<<32).
Delta(headerSize, dataSize) ==
    Add64(Or64(Shl32(U64(headerSize)), Low32(U64(dataSize))),
          Neg64(Shl32(U64(1))))

\* The words Allocate computes: the result of the atomic add, the overrun
\* test and the values it returns.
AllocateInsert(w, headerSize, dataSize) ==
    LET delta == Delta(headerSize, -dataSize)
        result == Add64(w, delta)
    IN  [word |-> result,
         delta |-> delta,
         ok |-> ~(SubInt32(result) < 0),
         headerOffset |-> IF SubInt32(result) < 0 THEN 0 ELSE Front(result),
         dataOffset |-> IF SubInt32(result) < 0 THEN 0 ELSE Back(result)]
AllocateForward(w, headerSize, dataSize) ==
    LET delta == Delta(headerSize, dataSize)
        result == Add64(w, delta)
        newStart == Front(result)
        newEnd == Back(result)
    IN  [word |-> result,
         delta |-> delta,
         ok |-> ~(SubInt32(result) < 0),
         headerOffset |-> IF SubInt32(result) < 0 THEN 0 ELSE newStart - headerSize,
         dataOffset |-> IF SubInt32(result) < 0 THEN 0 ELSE newEnd]
Allocate(w, headerSize, dataSize) ==
    LET delta == Delta(headerSize, -dataSize)
        result == Add64(w, delta)
        newStart == Front(result)
        newEnd == Back(result)
    IN  [word |-> result,
         delta |-> delta,
         ok |-> ~(SubInt32(result) < 0),
         headerOffset |-> IF SubInt32(result) < 0 THEN 0 ELSE newStart - headerSize,
         dataOffset |-> IF SubInt32(result) < 0 THEN 0 ELSE newEnd]

\* atomic.AddUint64((*uint64)(f), -delta)
RevertMissing(w, delta) == w
Revert(w, delta) == Add64(w, Neg64(delta))

Current(w) == <<Front(w), Back(w)>>
SpaceOf(w) == Back(w) - Front(w)

\* The word written least significant byte first.
EncodeLittleEndian(w) ==
    <<w[4] % Byte, w[4] \div Byte, w[3] % Byte, w[3] \div Byte,
      w[2] % Byte, w[2] \div Byte, w[1] % Byte, w[1] \div Byte>>

\* freeSpace.Encode: binary.BigEndian.PutUint64 of the word.
EncodeFreeSpace(w) ==
    <<w[1] \div Byte, w[1] % Byte, w[2] \div Byte, w[2] % Byte,
      w[3] \div Byte, w[3] % Byte, w[4] \div Byte, w[4] % Byte>>

\* The first 8 bytes read with the two halves exchanged.
newFreeSpaceHalvesSwapped(data) ==
    <<data[5] * Byte + data[6], data[7] * Byte + data[8],
      data[1] * Byte + data[2], data[3] * Byte + data[4]>>

\* binary.BigEndian.Uint64 of the first 8 bytes.
newFreeSpaceFromBytes(data) ==
    <<data[1] * Byte + data[2], data[3] * Byte + data[4],
      data[5] * Byte + data[6], data[7] * Byte + data[8]>>

\* ------------------------------------------------------------ encodings
\* binary.BigEndian.PutUint16/32/64: the k low bytes of n, most significant
\* first.
RECURSIVE BigEndian(_, _)
BigEndian(n, k) ==
    IF k = 0 THEN <<>> ELSE Append(BigEndian(n \div Byte, k - 1), n % Byte)

\* buf.Append(bytes...): a byte string is written behind its 4-byte length
\* ("4+ Bytes: Key").
AppendBytes(buf, bytes) == buf \o BigEndian(Len(bytes), 4) \o bytes

\* walTransactionChange.Encode
EncodeChange(c) ==
    LET head == AppendBytes(<<c.Type>>, c.Key)
    IN  IF c.Type = walTransactionChangeTypeSet THEN AppendBytes(head, c.Value) ELSE head

\* The loop of walTransaction.Encode over the entries: each change is written
\* behind its 4-byte length, in list order. The list is split in halves so
\* that lists of 65536 entries can be encoded.
RECURSIVE EncodedEntries(_)
EncodedEntries(entries) ==
    IF entries = <<>> THEN <<>>
    ELSE IF Len(entries) = 1 THEN AppendBytes(<<>>, EncodeChange(entries[1]))
    ELSE LET m == Len(entries) \div 2
         IN  EncodedEntries(SubSeq(entries, 1, m))
                \o EncodedEntries(SubSeq(entries, m + 1, Len(entries)))
EncodeEntries(buf, entries) == buf \o EncodedEntries(entries)

\* walTransaction.Encode
EncodeTransaction(t) ==
    EncodeEntries(BigEndian(t.TransactionId, 8) \o BigEndian(t.Timestamp, 8)
                    \o BigEndian(t.HeapId, 8) \o BigEndian(t.ValueFileId, 8)
                    \o BigEndian(Len(t.Entries) % Limb, 2),
                  t.Entries)

\* The 16-byte header Append builds: TransactionId, payload start, payload end.
HeaderWithLength(txn, dataOffset, n) ==
    BigEndian(txn.TransactionId, 8) \o BigEndian(dataOffset, 4) \o BigEndian(n, 4)
EncodeHeader(txn, dataOffset, n) ==
    BigEndian(txn.TransactionId, 8) \o BigEndian(dataOffset, 4)
        \o BigEndian(dataOffset + n, 4)

\* File.WriteAt(b, off) on a file whose bytes are file: bytes between the old
\* end of the file and off read as 0.
Max(a, b) == IF a >= b THEN a ELSE b
WriteAt(file, b, off) ==
    IF b = <<>> THEN file
    ELSE [i \in 1..Max(Len(file), off + Len(b)) |->
            IF i > off /\ i <= off + Len(b) THEN b[i - off]
            ELSE IF i <= Len(file) THEN file[i] ELSE 0]

\* File.ReadAt(p, off) with len(p) = n: the bytes the file has in [off, off+n).
ReadAt(file, off, n) == SubSeq(file, off + 1, IF off + n <= Len(file) THEN off + n ELSE Len(file))

\* What a failed write leaves of the allocation: Append returns the error and
\* does not touch the allocator.
AfterWriteErrorRollback(w, delta) == Add64(w, Neg64(delta))
AfterWriteError(w, delta) == w

\* The transactions appended.
NoEntries == [TransactionId |-> 1, Timestamp |-> 0, HeapId |-> 0, ValueFileId |-> 0,
              Entries |-> <<>>]
OneDelete == [TransactionId |-> 2, Timestamp |-> 5, HeapId |-> 0, ValueFileId |-> 0,
              Entries |-> <<[Type |-> walTransactionChangeTypeDelete,
                             Key |-> <<107>>, Value |-> <<>>]>>]
OneSet == [TransactionId |-> 258, Timestamp |-> 6, HeapId |-> 0, ValueFileId |-> 0,
           Entries |-> <<[Type |-> walTransactionChangeTypeSet,
                          Key |-> <<107>>, Value |-> <<118>>]>>]
Transactions == {NoEntries, OneDelete, OneSet}

\* ---------------------------------------------------------------- state
\* f         the allocator word of the allocator specification
\* pc        where each caller of Allocate is: "idle", or "revert" between the
\*           atomic add and the atomic revert of an overrunning call
\* cur       the call a caller in "revert" is running
\* ncalls    number of calls started
\* returned  the calls that have returned, in the order of their return
VARIABLES f, pc, cur, ncalls, returned

\* Space     walSegment.Space, the allocator word of the open segment
\* File      the bytes of the segment file (File[i+1] is the byte at offset i;
\*           its length is the size of the file)
\* apc       where each caller of Append is: "idle", "revert" (Allocate is
\*           between its add and its revert), "header" (about to write the
\*           header), "body" (about to write the body)
\* acur      the Append a caller is running
\* nappends  number of Append calls started
\* appended  the Append calls that have returned, in the order of their return
\* opens     number of times the segment file has been opened again
\* reopened  for each such open, the word before it and the word it produced
\* size      the capacity the segment is opened with
VARIABLES Space, File, apc, acur, nappends, appended, opens, reopened, size

\* Offset     valueFile.Offset
\* VFile      the bytes of the value file (valueFile.File)
\* wpc        where each caller of Write is: "idle", or "write" between the
\*            atomic add and the positioned write
\* wcur       the Write a caller is running
\* nwrites    number of Write calls started
\* written    the Write calls that have returned, in the order of their return
\* vopens     number of times the value file has been opened again
\* vreopened  for each such open, the size of the file and the Offset it set
\* flipped    the bits of the file that differ from what was written, as
\*            <<offset, bit>>
\* cuts       number of times the file has been truncated
VARIABLES Offset, VFile, wpc, wcur, nwrites, written, vopens, vreopened, flipped, cuts

\* names     the file names computed so far: the file type, the id and the
\*           name of each call of getValueFileName or getWalSegmentFileName
\* syncs     the calls of walSegment.Sync that have returned
\* encoded   the call of walTransaction.Encode: the transaction (a list of
\*           changes and the number of times the list is repeated in its
\*           Entries), whether Encode has run, and what has been overwritten
\*           in the bytes since (damage, and the byte or count written)
\* db        the DB: its channels, its background writer and the callers of
\*           Close
\* manager   the walManager: its segments and the appends it has served
\* values    the valueManager: its lock, its files map and the lookups
\* single    the walSegment with a single Offset counter and its appends
VARIABLES names, syncs, encoded, db, manager, values, single

allocVars == <<f, pc, cur, ncalls, returned>>
segVars == <<Space, File, apc, acur, nappends, appended, opens, reopened, size>>
valueVars == <<Offset, VFile, wpc, wcur, nwrites, written, vopens, vreopened, flipped, cuts>>
moreVars == <<names, syncs, encoded, db, manager, values, single>>
vars == <<f, pc, cur, ncalls, returned,
          Space, File, apc, acur, nappends, appended, opens, reopened, size,
          Offset, VFile, wpc, wcur, nwrites, written, vopens, vreopened, flipped, cuts,
          names, syncs, encoded, db, manager, values, single>>

NoCall == [h |-> 0, d |-> 0, pre |-> <<0, 0, 0, 0>>, used |-> 0, alone |-> TRUE, pend |-> 0]

RECURSIVE SumHanded(_)
SumHanded(s) ==
    IF s = <<>> THEN 0
    ELSE (IF s[1].ok THEN s[1].h + s[1].d ELSE 0) + SumHanded(Tail(s))

\* Bytes handed out so far by the calls that returned ok=true.
Used == SumHanded(returned)

Pending(p) == pc[p] = "revert"

\* Bytes asked for by the calls other than p's that are between their add and
\* their revert: what those adds hold of the word without having been granted.
RECURSIVE PendingRequests(_, _)
PendingRequests(p, q) ==
    IF q = 0 THEN 0
    ELSE (IF q # p /\ Pending(q) THEN cur[q].h + cur[q].d ELSE 0) + PendingRequests(p, q - 1)

\* A step of caller p on the word falls between the add and the revert of
\* every other call that is awaiting its revert.
Disturb(p) ==
    [q \in Procs |-> IF q # p /\ Pending(q) THEN [cur[q] EXCEPT !.alone = FALSE] ELSE cur[q]]

NoAppend == [txn |-> NoEntries, data |-> <<>>, headerOffset |-> 0, dataOffset |-> 0,
             pre |-> <<0, 0, 0, 0>>, post |-> <<0, 0, 0, 0>>,
             clean |-> TRUE, alone |-> TRUE, start |-> 0, seg |-> 0]

NoEncoded == [txn |-> NoEntries, copies |-> 1, done |-> FALSE, damage |-> "none", with |-> 0]

\* The DB Open returns: both channels empty, the background writer started and
\* at its select, no caller in Close.
Closers == 1..NClosers
OpenedDB ==
    [writeChannel |-> <<>>, stopWriteChannel |-> <<>>, writer |-> "select",
     stopResult |-> 0, printed |-> <<>>, commits |-> 0, first |-> 0,
     close |-> [c \in Closers |-> [pc |-> "idle", err |-> "none"]]]

\* newWalManager: no current segment yet.
NewWalManager == [currentSegment |-> 0, Space |-> <<0, 0, 0, 0>>, size |-> 0, served |-> <<>>]

\* A valueManager with an empty files map (0 stands for no entry), its lock
\* free and no lookup running.
FileIds == 1..NFileIds
NewValueManager ==
    [files |-> [id \in FileIds |-> 0], readers |-> {}, writer |-> 0,
     lookup |-> [p \in Procs |-> [pc |-> "idle", id |-> 0, first |-> 0]],
     opened |-> <<>>, got |-> <<>>, started |-> 0]

\* The walSegment with one Offset counter, opened on a new file.
NoSingleAppend == [txn |-> NoEntries, buf |-> <<>>, offset |-> 0, post |-> 0, seq |-> 0]
NewSingleSegment ==
    [Offset |-> 0, File |-> <<>>,
     pc |-> [p \in Procs |-> "idle"], cur |-> [p \in Procs |-> NoSingleAppend],
     appended |-> <<>>, started |-> 0]

NoWrite == [value |-> <<>>, offset |-> 0, pre |-> 0, post |-> 0, start |-> 0, file |-> 0,
            seq |-> 0]

\* Everything but the bytes of the segment file.
InitButFile ==
    /\ f = newFreeSpace(AllocCapacity)
    /\ pc = [p \in Procs |-> "idle"]
    /\ cur = [p \in Procs |-> NoCall]
    /\ ncalls = 0
    /\ returned = <<>>
    /\ size \in {SmallCapacity, SegCapacity}
    /\ Space = newFreeSpace(size)
    /\ apc = [p \in Procs |-> "idle"]
    /\ acur = [p \in Procs |-> NoAppend]
    /\ nappends = 0
    /\ appended = <<>>
    /\ opens = 0
    /\ reopened = <<>>
    /\ Offset = 0
    /\ VFile = <<>>
    /\ wpc = [p \in Procs |-> "idle"]
    /\ wcur = [p \in Procs |-> NoWrite]
    /\ nwrites = 0
    /\ written = <<>>
    /\ vopens = 0
    /\ vreopened = <<>>
    /\ flipped = {}
    /\ cuts = 0
    /\ names = <<>>
    /\ syncs = <<>>
    /\ encoded = NoEncoded
    /\ db = OpenedDB
    /\ manager = NewWalManager
    /\ values = NewValueManager
    /\ single = NewSingleSegment

Init ==
    /\ InitButFile
    /\ File = <<>>

\* Allocate up to its return (ok=true) or up to the state after the add of an
\* overrunning call.
AllocateAdd(p, h, d) ==
    LET a == Allocate(f, h, d)
        alone == \A q \in Procs \ {p} : ~Pending(q)
    IN  /\ pc[p] = "idle"
        /\ ncalls < MaxCalls
        /\ ncalls' = ncalls + 1
        /\ f' = a.word
        /\ IF a.ok
           THEN /\ returned' = Append(returned,
                        [p |-> p, h |-> h, d |-> d, ok |-> TRUE,
                         headerOffset |-> a.headerOffset, dataOffset |-> a.dataOffset,
                         pre |-> f, post |-> a.word, used |-> Used, alone |-> alone,
                         pend |-> PendingRequests(p, NProcs)])
                /\ cur' = Disturb(p)
                /\ pc' = pc
           ELSE /\ cur' = [Disturb(p) EXCEPT ![p] =
                        [h |-> h, d |-> d, pre |-> f, used |-> Used, alone |-> alone,
                         pend |-> PendingRequests(p, NProcs)]]
                /\ pc' = [pc EXCEPT ![p] = "revert"]
                /\ returned' = returned
        /\ UNCHANGED <<segVars, valueVars, moreVars>>

\* The revert of an overrunning call and its return of (false, 0, 0).
AllocateRevert(p) ==
    LET c == cur[p]
        w == Revert(f, Delta(c.h, -c.d))
    IN  /\ pc[p] = "revert"
        /\ f' = w
        /\ returned' = Append(returned,
                [p |-> p, h |-> c.h, d |-> c.d, ok |-> FALSE,
                 headerOffset |-> 0, dataOffset |-> 0,
                 pre |-> c.pre, post |-> w, used |-> c.used, alone |-> c.alone,
                 pend |-> c.pend])
        /\ cur' = [Disturb(p) EXCEPT ![p] = NoCall]
        /\ pc' = [pc EXCEPT ![p] = "idle"]
        /\ ncalls' = ncalls
        /\ UNCHANGED <<segVars, valueVars, moreVars>>

AllocNext ==
    \/ \E p \in Procs, h \in 0..MaxLen, d \in 0..MaxLen : AllocateAdd(p, h, d)
    \/ \E p \in Procs : AllocateRevert(p)

AllocSpec == Init /\ [][AllocNext]_vars

\* ------------------------------------------------------------ walSegment
APending(p) == apc[p] = "revert"

\* The segment object in use: the number of opens that returned a segment.
SegNo == Len(SelectSeq(reopened, LAMBDA r : r.ok))

ADisturb(p) ==
    [q \in Procs |-> IF q # p /\ APending(q) THEN [acur[q] EXCEPT !.alone = FALSE] ELSE acur[q]]

Returned(c, err) ==
    [txn |-> c.txn, data |-> c.data, err |-> err,
     headerOffset |-> c.headerOffset, dataOffset |-> c.dataOffset,
     pre |-> c.pre, post |-> c.post, clean |-> c.clean, alone |-> c.alone,
     start |-> c.start, seg |-> c.seg]

\* Append from its entry to the return of w.Space.Allocate(header, data), or to
\* the state between the add and the revert inside Allocate.
AppendAllocate(p, txn) ==
    LET data == EncodeTransaction(txn)
        a == Allocate(Space, HeaderSize, Len(data))
        quiet == \A q \in Procs \ {p} : ~APending(q)
    IN  /\ apc[p] = "idle"
        /\ nappends < MaxAppends
        /\ nappends' = nappends + 1
        /\ Space' = a.word
        /\ acur' = [ADisturb(p) EXCEPT ![p] =
                [txn |-> txn, data |-> data,
                 headerOffset |-> a.headerOffset, dataOffset |-> a.dataOffset,
                 pre |-> Space, post |-> a.word, clean |-> quiet, alone |-> quiet,
                 start |-> Len(appended), seg |-> SegNo]]
        /\ apc' = [apc EXCEPT ![p] = IF a.ok THEN "header" ELSE "revert"]
        /\ UNCHANGED <<File, appended, opens, reopened, size>>
        /\ UNCHANGED <<allocVars, valueVars, moreVars>>

\* The revert inside Allocate and the return of ErrInsufficientSpace.
AppendInsufficientSpace(p) ==
    LET c == acur[p]
        w == Revert(Space, Delta(HeaderSize, -Len(c.data)))
    IN  /\ apc[p] = "revert"
        /\ Space' = w
        /\ appended' = Append(appended, Returned([c EXCEPT !.post = w], "ErrInsufficientSpace"))
        /\ acur' = [ADisturb(p) EXCEPT ![p] = NoAppend]
        /\ apc' = [apc EXCEPT ![p] = "idle"]
        /\ UNCHANGED <<File, nappends, opens, reopened, size>>
        /\ UNCHANGED <<allocVars, valueVars, moreVars>>

\* The header write whose error is not looked at: Append goes on to the body
\* write whatever the header write did.
AppendWriteHeaderUnchecked(p) ==
    LET c == acur[p]
        header == EncodeHeader(c.txn, c.dataOffset, Len(c.data))
    IN  /\ apc[p] = "header"
        /\ \E n \in {0, MaxShort, Len(header)} :
              File' = WriteAt(File, SubSeq(header, 1, n), c.headerOffset)
        /\ apc' = [apc EXCEPT ![p] = "body"]
        /\ UNCHANGED <<Space, acur, appended>>
        /\ UNCHANGED <<nappends, opens, reopened, size>>
        /\ UNCHANGED <<allocVars, valueVars, moreVars>>

\* w.File.WriteAt(header, headerOffset): the write succeeds, or it fails after
\* n bytes and Append returns the error.
AppendWriteHeader(p) ==
    LET c == acur[p]
        header == EncodeHeader(c.txn, c.dataOffset, Len(c.data))
    IN  /\ apc[p] = "header"
        /\ \/ /\ File' = WriteAt(File, header, c.headerOffset)
              /\ apc' = [apc EXCEPT ![p] = "body"]
              /\ UNCHANGED <<Space, acur, appended>>
           \/ \E n \in 0..MaxShort :
              /\ File' = WriteAt(File, SubSeq(header, 1, n), c.headerOffset)
              /\ Space' = AfterWriteError(Space, Delta(HeaderSize, -Len(c.data)))
              /\ appended' = Append(appended, Returned(c, "EIO"))
              /\ acur' = [acur EXCEPT ![p] = NoAppend]
              /\ apc' = [apc EXCEPT ![p] = "idle"]
        /\ UNCHANGED <<nappends, opens, reopened, size>>
        /\ UNCHANGED <<allocVars, valueVars, moreVars>>

\* w.File.WriteAt(data, dataOffset) and the return of Append.
AppendWriteBody(p) ==
    LET c == acur[p]
    IN  /\ apc[p] = "body"
        /\ \/ /\ File' = WriteAt(File, c.data, c.dataOffset)
              /\ Space' = Space
              /\ appended' = Append(appended, Returned(c, "nil"))
           \/ \E n \in 0..MaxShort :
              /\ File' = WriteAt(File, SubSeq(c.data, 1, n), c.dataOffset)
              /\ Space' = AfterWriteError(Space, Delta(HeaderSize, -Len(c.data)))
              /\ appended' = Append(appended, Returned(c, "EIO"))
        /\ acur' = [acur EXCEPT ![p] = NoAppend]
        /\ apc' = [apc EXCEPT ![p] = "idle"]
        /\ UNCHANGED <<nappends, opens, reopened, size>>
        /\ UNCHANGED <<allocVars, valueVars, moreVars>>

\* openWalSegment on the file of the segment, after a restart (no Append is
\* running): a file of at most 8 bytes gets a new allocator, otherwise the
\* allocator is read from bytes [0, 8); a failed read returns no segment.
OpenWalSegment(readOk) ==
    LET opened == IF Len(File) <= 8 THEN newFreeSpace(size)
                  ELSE newFreeSpaceFromBytes(ReadAt(File, 0, 8))
        ok == Len(File) <= 8 \/ readOk
    IN  /\ \A p \in Procs : apc[p] = "idle"
        /\ opens < MaxOpens
        /\ opens' = opens + 1
        /\ Space' = IF ok THEN opened ELSE Space
        /\ reopened' = Append(reopened,
                [ok |-> ok, size |-> Len(File), before |-> Space,
                 after |-> IF ok THEN opened ELSE Space])
        /\ UNCHANGED <<File, apc, acur, nappends, appended, size>>
        /\ UNCHANGED <<allocVars, valueVars, moreVars>>

SegNext ==
    \/ \E p \in Procs, txn \in Transactions : AppendAllocate(p, txn)
    \/ \E p \in Procs : AppendInsufficientSpace(p)
    \/ \E p \in Procs : AppendWriteHeader(p)
    \/ \E p \in Procs : AppendWriteBody(p)
    \/ \E readOk \in BOOLEAN : OpenWalSegment(readOk)

SegSpec == Init /\ [][SegNext]_vars

\* ------------------------------------------------------------- valueFile
\* a ^ b on two bytes.
RECURSIVE Xor(_, _)
Xor(a, b) == IF a = 0 /\ b = 0 THEN 0 ELSE ((a + b) % 2) + 2 * Xor(a \div 2, b \div 2)

\* fnv.New32(): the 32-bit FNV-1 hash, kept as two 16-bit limbs; its initial
\* value is 0x811c9dc5.
FnvNew32 == <<33052, 40389>>

\* A hash that adds each byte to the sum (modulo 2^32), whatever its place.
FnvStepAdditive(h, c) ==
    <<(h[1] + (h[2] + c) \div Limb) % Limb, (h[2] + c) % Limb>>

\* One byte of h.Write: hash *= 0x01000193 (modulo 2^32), then hash ^= c.
\* 0x01000193 = 2^24 + 403.
FnvStep(h, c) ==
    LET lo == h[2] * 403
        hi == h[1] * 403 + lo \div Limb + (h[2] % Byte) * Byte
        l == lo % Limb
    IN  <<hi % Limb, (l \div Byte) * Byte + Xor(l % Byte, c)>>

RECURSIVE FnvWrite(_, _)
FnvWrite(h, b) == IF b = <<>> THEN h ELSE FnvWrite(FnvStep(h, b[1]), Tail(b))

\* h.Sum(nil): the hash as 4 bytes, most significant first.
FnvSum(h) == <<h[1] \div Byte, h[1] % Byte, h[2] \div Byte, h[2] % Byte>>

\* binary.BigEndian.Uint32 of 4 bytes, as two limbs.
Uint32(b) == <<b[1] * Byte + b[2], b[3] * Byte + b[4]>>

\* The error of File.ReadAt(p, off) with len(p) = n: a read that ends before
\* n bytes returns the bytes it has together with io.EOF.
ReadAtErr(file, off, n) == IF off + n <= Len(file) THEN "nil" ELSE "EOF"

\* valueFile.Read(offset, size) on a file whose bytes are file. isnil tells
\* the nil slice of a failed Read from the empty value.
ReadUnchecked(file, offset, sz) ==
    LET value == ReadAt(file, offset, sz + ChecksumSize)
        err == ReadAtErr(file, offset, sz + ChecksumSize)
    IN  IF err # "nil" THEN [value |-> <<>>, isnil |-> TRUE, err |-> err]
        ELSE IF Len(value) # sz + ChecksumSize
             THEN [value |-> <<>>, isnil |-> TRUE, err |-> "ErrIncompleteValue"]
        ELSE [value |-> SubSeq(value, 1, sz), isnil |-> FALSE, err |-> "nil"]
Read(file, offset, sz) ==
    LET value == ReadAt(file, offset, sz + ChecksumSize)
        err == ReadAtErr(file, offset, sz + ChecksumSize)
    IN  IF err # "nil" THEN [value |-> <<>>, isnil |-> TRUE, err |-> err]
        ELSE IF Len(value) # sz + ChecksumSize
             THEN [value |-> <<>>, isnil |-> TRUE, err |-> "ErrIncompleteValue"]
        ELSE IF FnvWrite(FnvNew32, SubSeq(value, 1, sz))
                    # Uint32(SubSeq(value, sz + 1, sz + ChecksumSize))
             THEN [value |-> <<>>, isnil |-> TRUE, err |-> "ErrBadValueChecksum"]
        ELSE [value |-> SubSeq(value, 1, sz), isnil |-> FALSE, err |-> "nil"]

\* v := append(value, checksum...)
WithChecksumLittleEndian(value) ==
    LET sum == FnvSum(FnvWrite(FnvNew32, value))
    IN  value \o <<sum[4], sum[3], sum[2], sum[1]>>
WithChecksum(value) == value \o FnvSum(FnvWrite(FnvNew32, value))

\* What Write returns when File.WriteAt returned (n, err).
WriteReturn(n, err, sz, offset) ==
    IF err # "nil" THEN [offset |-> 0, err |-> err]
    ELSE IF n # sz THEN [offset |-> 0, err |-> "ErrIncompleteValue"]
    ELSE [offset |-> offset, err |-> "nil"]

\* offset := atomic.AddUint64(&f.Offset, size) - size, given the new Offset.
PlacementNew(newOffset, sz) == newOffset
PlacementShort(newOffset, sz) == newOffset - ChecksumSize
Placement(newOffset, sz) == newOffset - sz

\* Offset: uint64(stat.Size())
OffsetAtOpenZero(file) == 0
OffsetAtOpen(file) == Len(file)

\* The values written.
Values == {v \in {<<>>, <<118>>, <<97, 98>>} : Len(v) <= MaxValueLen}

\* The valueFile object in use: the number of opens that returned one.
FileNo == Len(SelectSeq(vreopened, LAMBDA r : r.ok))

\* The bits of flipped that lie outside the bytes [off, off + n).
Outside(off, n) == {x \in flipped : x[1] < off \/ x[1] >= off + n}

\* Write from its entry to the atomic add of size to Offset.
WriteAdd(p, value) ==
    LET sz == Len(value) + ChecksumSize
    IN  /\ wpc[p] = "idle"
        /\ nwrites < MaxWrites
        /\ nwrites' = nwrites + 1
        /\ Offset' = Offset + sz
        /\ wcur' = [wcur EXCEPT ![p] =
                [value |-> value, offset |-> Placement(Offset + sz, sz),
                 pre |-> Offset, post |-> Offset + sz,
                 start |-> Len(written), file |-> FileNo, seq |-> nwrites + 1]]
        /\ wpc' = [wpc EXCEPT ![p] = "write"]
        /\ UNCHANGED <<VFile, written, vopens, vreopened, flipped, cuts>>
        /\ UNCHANGED <<allocVars, segVars, moreVars>>

\* The positioned write of a Write that gives its range back when it fails.
WritePositionedRollback(p) ==
    LET c == wcur[p]
        v == WithChecksum(c.value)
        sz == Len(c.value) + ChecksumSize
    IN  /\ wpc[p] = "write"
        /\ \E n \in (0..MaxShort) \cup {sz}, err \in {"nil", "EIO"} :
              /\ n = sz => err = "nil"
              /\ VFile' = WriteAt(VFile, SubSeq(v, 1, n), c.offset)
              /\ flipped' = Outside(c.offset, n)
              /\ Offset' = IF WriteReturn(n, err, sz, c.offset).err = "nil"
                           THEN Offset ELSE Offset - sz
              /\ written' = Append(written,
                    [value |-> c.value, at |-> c.offset, n |-> n,
                     offset |-> WriteReturn(n, err, sz, c.offset).offset,
                     err |-> WriteReturn(n, err, sz, c.offset).err,
                     pre |-> c.pre, post |-> c.post, start |-> c.start, file |-> c.file,
                     seq |-> c.seq])
        /\ wcur' = [wcur EXCEPT ![p] = NoWrite]
        /\ wpc' = [wpc EXCEPT ![p] = "idle"]
        /\ UNCHANGED <<nwrites, vopens, vreopened, cuts>>
        /\ UNCHANGED <<allocVars, segVars, moreVars>>

\* f.File.WriteAt(v, int64(offset)) and the return of Write: the write takes
\* all of v, or it takes n bytes and reports an error, or it takes n bytes and
\* reports none.
WritePositioned(p) ==
    LET c == wcur[p]
        v == WithChecksum(c.value)
        sz == Len(c.value) + ChecksumSize
    IN  /\ wpc[p] = "write"
        /\ \E n \in (0..MaxShort) \cup {sz}, err \in {"nil", "EIO"} :
              /\ n = sz => err = "nil"
              /\ VFile' = WriteAt(VFile, SubSeq(v, 1, n), c.offset)
              /\ flipped' = Outside(c.offset, n)
              /\ written' = Append(written,
                    [value |-> c.value, at |-> c.offset, n |-> n,
                     offset |-> WriteReturn(n, err, sz, c.offset).offset,
                     err |-> WriteReturn(n, err, sz, c.offset).err,
                     pre |-> c.pre, post |-> c.post, start |-> c.start, file |-> c.file,
                     seq |-> c.seq])
        /\ wcur' = [wcur EXCEPT ![p] = NoWrite]
        /\ wpc' = [wpc EXCEPT ![p] = "idle"]
        /\ UNCHANGED <<Offset, nwrites, vopens, vreopened, cuts>>
        /\ UNCHANGED <<allocVars, segVars, moreVars>>

\* openValueFile on the value file, after a restart (no Write is running):
\* Offset is the size of the file; a failed os.OpenFile or Stat returns no
\* valueFile.
OpenValueFile(openOk) ==
    /\ \A p \in Procs : wpc[p] = "idle"
    /\ vopens < MaxOpens
    /\ vopens' = vopens + 1
    /\ Offset' = IF openOk THEN OffsetAtOpen(VFile) ELSE Offset
    /\ vreopened' = Append(vreopened,
            [ok |-> openOk, size |-> Len(VFile), before |-> Offset,
             after |-> IF openOk THEN OffsetAtOpen(VFile) ELSE Offset,
             writes |-> Len(written)])
    /\ UNCHANGED <<VFile, wpc, wcur, nwrites, written, flipped, cuts>>
    /\ UNCHANGED <<allocVars, segVars, moreVars>>

ValueNext ==
    \/ \E p \in Procs, value \in Values : WriteAdd(p, value)
    \/ \E p \in Procs : WritePositioned(p)
    \/ \E openOk \in BOOLEAN : OpenValueFile(openOk)

\* The value file does not depend on the capacity of the segment.
SmallInit == Init /\ size = SmallCapacity

ValueInit == Init /\ size = SegCapacity

ValueSpec == ValueInit /\ [][ValueNext]_vars

\* The byte b with bit k inverted.
FlipBit(b, k) == IF (b \div (2 ^ k)) % 2 = 1 THEN b - (2 ^ k) ELSE b + (2 ^ k)

\* Damage to the file from outside the program: bit k of the byte at offset i
\* is inverted.
Corrupt(i, k) ==
    LET toggled == IF <<i, k>> \in flipped THEN flipped \ {<<i, k>>}
                   ELSE flipped \cup {<<i, k>>}
    IN  /\ i < Len(VFile)
        /\ Cardinality(toggled) + cuts <= MaxFaults
        /\ VFile' = [VFile EXCEPT ![i + 1] = FlipBit(@, k)]
        /\ flipped' = toggled
        /\ UNCHANGED <<Offset, wpc, wcur, nwrites, written, vopens, vreopened, cuts>>
        /\ UNCHANGED <<allocVars, segVars, moreVars>>

\* Damage to the file from outside the program: the file is cut to n bytes.
Truncate(n) ==
    /\ n < Len(VFile)
    /\ Cardinality(flipped) + cuts < MaxFaults
    /\ cuts' = cuts + 1
    /\ VFile' = SubSeq(VFile, 1, n)
    /\ flipped' = {x \in flipped : x[1] < n}
    /\ UNCHANGED <<Offset, wpc, wcur, nwrites, written, vopens, vreopened>>
    /\ UNCHANGED <<allocVars, segVars, moreVars>>

\* No file of the model is longer than this.
MaxFileLen == MaxWrites * (MaxValueLen + ChecksumSize)

\* The value file with damage from outside, for up to MaxFaultWrites calls of
\* Write.
FaultNext ==
    \/ ValueNext /\ nwrites' <= MaxFaultWrites
    \/ \E i \in 0..(MaxFileLen - 1), k \in 0..7 : Corrupt(i, k)
    \/ \E n \in 0..(MaxFileLen - 1) : Truncate(n)

FaultSpec == ValueInit /\ [][FaultNext]_vars

\* ------------------------------------------------ claims on the allocator
Idx == 1..Len(returned)

\* Two half-open byte ranges [a, a+m) and [b, b+n) share a byte.
Overlap(a, m, b, n) == m > 0 /\ n > 0 /\ a < b + n /\ b < a + m

\* All sizes requested so far, by the calls that returned and by the calls
\* that are between their add and their revert.
RECURSIVE SumRequested(_)
SumRequested(s) ==
    IF s = <<>> THEN 0 ELSE s[1].h + s[1].d + SumRequested(Tail(s))

RECURSIVE SumPending(_)
SumPending(S) ==
    IF S = {} THEN 0
    ELSE LET q == CHOOSE x \in S : TRUE
         IN  (IF Pending(q) THEN cur[q].h + cur[q].d ELSE 0) + SumPending(S \ {q})

Requested == SumRequested(returned) + SumPending(Procs)

RangesDisjoint ==
    /\ \A i \in Idx : returned[i].ok =>
           ~Overlap(returned[i].headerOffset, returned[i].h,
                    returned[i].dataOffset, returned[i].d)
    /\ \A i, j \in Idx : (i < j /\ returned[i].ok /\ returned[j].ok) =>
           /\ ~Overlap(returned[i].headerOffset, returned[i].h,
                       returned[j].headerOffset, returned[j].h)
           /\ ~Overlap(returned[i].headerOffset, returned[i].h,
                       returned[j].dataOffset, returned[j].d)
           /\ ~Overlap(returned[i].dataOffset, returned[i].d,
                       returned[j].headerOffset, returned[j].h)
           /\ ~Overlap(returned[i].dataOffset, returned[i].d,
                       returned[j].dataOffset, returned[j].d)

\* C1: as long as the sizes requested so far fit capacity - 8, no call is
\* awaiting a revert, every call that returned got ok=true, and the header and
\* data ranges handed out overlap neither each other nor those of another call.
C1_AllocationsDisjoint ==
    Requested <= AllocCapacity - ReservedPrefix =>
        /\ \A p \in Procs : ~Pending(p)
        /\ \A i \in Idx : returned[i].ok
        /\ RangesDisjoint

\* C2: a call whose request makes the cumulative allocation exceed
\* capacity - 8 returns (false, 0, 0), and when no other call ran meanwhile the
\* word after its return is the word before the call.
C2_OverrunFailsAndRollsBack ==
    \A i \in Idx :
        returned[i].used + returned[i].h + returned[i].d > AllocCapacity - ReservedPrefix =>
            /\ ~returned[i].ok
            /\ returned[i].headerOffset = 0
            /\ returned[i].dataOffset = 0
            /\ returned[i].alone => returned[i].post = returned[i].pre

\* C3: a successful call adds exactly headerLen to the front cursor, subtracts
\* exactly dataLen from the back cursor, and returns the front cursor before
\* the call and the back cursor after it.
C3_ExactCursorUpdate ==
    \A i \in Idx : returned[i].ok =>
        /\ Front(returned[i].post) = Front(returned[i].pre) + returned[i].h
        /\ Back(returned[i].post) = Back(returned[i].pre) - returned[i].d
        /\ returned[i].headerOffset = Front(returned[i].pre)
        /\ returned[i].dataOffset = Back(returned[i].post)

Overlapped ==
    \/ \E i \in Idx : ~returned[i].alone
    \/ \E p \in Procs : Pending(p) /\ ~cur[p].alone

AIdx == 1..Len(appended)

\* binary.BigEndian.Uint32/Uint64 of a byte string.
RECURSIVE FromBigEndian(_)
FromBigEndian(b) ==
    IF b = <<>> THEN 0
    ELSE FromBigEndian(SubSeq(b, 1, Len(b) - 1)) * Byte + b[Len(b)]

\* The payload span recorded in the header slot of the i-th returned Append.
SpanStart(i) == FromBigEndian(ReadAt(File, appended[i].headerOffset + 8, 4))
SpanEnd(i) == FromBigEndian(ReadAt(File, appended[i].headerOffset + 12, 4))

\* The header slot of the i-th returned Append holds its TransactionId and a
\* span that holds exactly the encoding of its transaction.
RecordIntact(i) ==
    /\ Len(ReadAt(File, appended[i].headerOffset, HeaderSize)) = HeaderSize
    /\ FromBigEndian(ReadAt(File, appended[i].headerOffset, 8)) = appended[i].txn.TransactionId
    /\ SpanStart(i) <= SpanEnd(i)
    /\ ReadAt(File, SpanStart(i), SpanEnd(i) - SpanStart(i)) = EncodeTransaction(appended[i].txn)

\* C5: for every interleaving of Append calls, each call that returned nil has
\* its TransactionId and the span of its own encoded body in its header slot,
\* and the slots and spans of two such calls do not overlap.
C5_ConcurrentAppendsSelfConsistent ==
    \A i \in AIdx : appended[i].err = "nil" =>
        /\ RecordIntact(i)
        /\ ~Overlap(appended[i].headerOffset, HeaderSize,
                    SpanStart(i), SpanEnd(i) - SpanStart(i))
        /\ \A j \in AIdx : (i < j /\ appended[j].err = "nil") =>
            /\ ~Overlap(appended[i].headerOffset, HeaderSize,
                        appended[j].headerOffset, HeaderSize)
            /\ ~Overlap(appended[i].headerOffset, HeaderSize,
                        SpanStart(j), SpanEnd(j) - SpanStart(j))
            /\ ~Overlap(SpanStart(i), SpanEnd(i) - SpanStart(i),
                        appended[j].headerOffset, HeaderSize)
            /\ ~Overlap(SpanStart(i), SpanEnd(i) - SpanStart(i),
                        SpanStart(j), SpanEnd(j) - SpanStart(j))

\* C5 witness: two Append calls that ran at the same time have both returned
\* nil.
C5_Witness ==
    \E i, j \in AIdx :
        /\ i < j
        /\ appended[i].err = "nil"
        /\ appended[j].err = "nil"
        /\ appended[j].start < i

\* The segment object numbered k was opened on a file of at most 8 bytes.
FreshSegment(k) ==
    k = 0 \/ SelectSeq(reopened, LAMBDA r : r.ok)[k].size <= 8

\* C6: on a segment opened fresh, an Append that returned nil has written the
\* header (TransactionId, payload start, payload end, big-endian) at
\* headerOffset >= 8 and the body at dataOffset = payload start, with payload
\* end <= capacity; an Append whose 16 + len(body) bytes fit Space() at its
\* Allocate and whose writes succeeded returned nil.
C6_AppendWritesHeaderAndBody ==
    \A i \in AIdx : FreshSegment(appended[i].seg) =>
        /\ appended[i].err = "nil" =>
            /\ ReadAt(File, appended[i].headerOffset, 8)
                   = BigEndian(appended[i].txn.TransactionId, 8)
            /\ ReadAt(File, appended[i].headerOffset + 8, 4)
                   = BigEndian(appended[i].dataOffset, 4)
            /\ ReadAt(File, appended[i].headerOffset + 12, 4)
                   = BigEndian(appended[i].dataOffset + Len(EncodeTransaction(appended[i].txn)), 4)
            /\ ReadAt(File, appended[i].dataOffset, Len(EncodeTransaction(appended[i].txn)))
                   = EncodeTransaction(appended[i].txn)
            /\ appended[i].headerOffset >= ReservedPrefix
            /\ appended[i].dataOffset + Len(EncodeTransaction(appended[i].txn)) <= size
        /\ HeaderSize + Len(EncodeTransaction(appended[i].txn)) <= SpaceOf(appended[i].pre) =>
            appended[i].err # "ErrInsufficientSpace"

\* C6 witness: an Append of a transaction with an entry has returned nil on
\* the fresh segment after another one did.
C6_Witness ==
    \E i, j \in AIdx :
        /\ i < j
        /\ appended[i].err = "nil"
        /\ appended[j].err = "nil"
        /\ appended[j].txn = OneDelete
        /\ FreshSegment(appended[j].seg)

\* C7: the steps of an Append that finds no room (the add and the revert
\* inside Allocate) write nothing to the file; it returns
\* ErrInsufficientSpace; if no other call touched the allocator meanwhile the
\* word is the one before the call; and the records of the calls that
\* returned nil are intact afterwards.
C7_InsufficientSpaceLeavesNoTrace ==
    [][\A p \in Procs :
          /\ (apc[p] = "idle" /\ apc'[p] = "revert") => File' = File
          /\ (apc[p] = "revert" /\ apc'[p] = "idle") =>
                /\ File' = File
                /\ appended'[Len(appended')].err = "ErrInsufficientSpace"
                /\ acur[p].alone => Space' = acur[p].pre
                /\ \A i \in AIdx : appended[i].err = "nil" => RecordIntact(i)']_vars

\* C7 witness: an Append has returned ErrInsufficientSpace, undisturbed, after
\* another one returned nil.
C7_Witness ==
    \E i, j \in AIdx :
        /\ i < j
        /\ appended[i].err = "nil"
        /\ appended[j].err = "ErrInsufficientSpace"
        /\ appended[j].alone
        /\ Space = appended[j].pre

MinBodyLen == Len(EncodeTransaction([NoEntries EXCEPT !.TransactionId = 0]))

SuccessesBounded ==
    \A k \in 0..SegNo :
        Cardinality({i \in AIdx : appended[i].seg = k /\ appended[i].err = "nil"})
            <= (size - ReservedPrefix) \div (HeaderSize + MinBodyLen)

\* C8 as stated: at most (C - 8) / (16 + minimal body length) Append calls
\* return nil on a segment, and once an Append has returned
\* ErrInsufficientSpace every later Append of a transaction at least as large
\* returns ErrInsufficientSpace.
C8_FullStaysFull ==
    /\ SuccessesBounded
    /\ \A i, j \in AIdx :
          (/\ appended[i].err = "ErrInsufficientSpace"
           /\ appended[j].start >= i
           /\ appended[j].seg = appended[i].seg
           /\ Len(appended[j].data) >= Len(appended[i].data))
          => appended[j].err = "ErrInsufficientSpace"

\* C8 amended: the same, for an ErrInsufficientSpace of an Append whose
\* Allocate ran its add while no other call was between its add and its
\* revert.
C8_FullStaysFullAfterCleanFailure ==
    /\ SuccessesBounded
    /\ \A i, j \in AIdx :
          (/\ appended[i].err = "ErrInsufficientSpace"
           /\ appended[i].clean
           /\ appended[j].start >= i
           /\ appended[j].seg = appended[i].seg
           /\ Len(appended[j].data) >= Len(appended[i].data))
          => appended[j].err = "ErrInsufficientSpace"

\* C8 witness: after an Append that returned nil, an Append was refused with
\* no other call in flight, and a later Append at least as large was refused
\* too.
C8_Witness ==
    \E h, i, j \in AIdx :
        /\ h < i
        /\ i < j
        /\ appended[h].err = "nil"
        /\ appended[i].err = "ErrInsufficientSpace"
        /\ appended[i].clean
        /\ appended[j].start >= i
        /\ appended[j].seg = appended[i].seg
        /\ Len(appended[j].data) >= Len(appended[i].data)
        /\ appended[j].err = "ErrInsufficientSpace"

\* C9: an Append whose header or body write failed keeps its allocation: the
\* cursors of the segment stay beyond its header slot and its body range, and
\* no other Append on the segment, returned or running, holds a header slot or
\* a body range that overlaps them.
C9_FailedWriteKeepsAllocation ==
    \A i \in AIdx : appended[i].err = "EIO" =>
        /\ SegNo = appended[i].seg =>
              /\ Front(Space) >= appended[i].headerOffset + HeaderSize
              /\ Back(Space) <= appended[i].dataOffset
        /\ \A j \in AIdx :
              (j # i /\ appended[j].seg = appended[i].seg
                     /\ appended[j].err # "ErrInsufficientSpace") =>
                 /\ ~Overlap(appended[i].headerOffset, HeaderSize,
                             appended[j].headerOffset, HeaderSize)
                 /\ ~Overlap(appended[i].headerOffset, HeaderSize,
                             appended[j].dataOffset, Len(appended[j].data))
                 /\ ~Overlap(appended[i].dataOffset, Len(appended[i].data),
                             appended[j].headerOffset, HeaderSize)
                 /\ ~Overlap(appended[i].dataOffset, Len(appended[i].data),
                             appended[j].dataOffset, Len(appended[j].data))
        /\ \A p \in Procs :
              (apc[p] \in {"header", "body"} /\ acur[p].seg = appended[i].seg) =>
                 /\ ~Overlap(appended[i].headerOffset, HeaderSize,
                             acur[p].headerOffset, HeaderSize)
                 /\ ~Overlap(appended[i].headerOffset, HeaderSize,
                             acur[p].dataOffset, Len(acur[p].data))
                 /\ ~Overlap(appended[i].dataOffset, Len(appended[i].data),
                             acur[p].headerOffset, HeaderSize)
                 /\ ~Overlap(appended[i].dataOffset, Len(appended[i].data),
                             acur[p].dataOffset, Len(acur[p].data))

\* C9 witness: after an Append returned a write error, a later Append on the
\* same segment was given space and returned nil.
C9_Witness ==
    \E i, j \in AIdx :
        /\ appended[i].err = "EIO"
        /\ appended[j].start >= i
        /\ appended[j].seg = appended[i].seg
        /\ appended[j].err = "nil"

\* C10: an open of the segment file that follows Append calls yields the
\* cursors the segment had before it, and when no Append is running bytes
\* [0, 8) of a file that holds appended records are the encoded allocator word.
C10_AllocatorSurvivesReopen ==
    /\ \A k \in 1..Len(reopened) :
          reopened[k].ok => Current(reopened[k].after) = Current(reopened[k].before)
    /\ ((\A p \in Procs : apc[p] = "idle") /\ (\E i \in AIdx : appended[i].err = "nil"))
          => ReadAt(File, 0, 8) = EncodeFreeSpace(Space)

\* ---------------------------------------------- claims on the value file
WIdx == 1..Len(written)

\* What Read returns for a value read back whole.
ReadBack(value) == [value |-> value, isnil |-> FALSE, err |-> "nil"]

\* What Read returns when it fails with err.
ReadFails(err) == [value |-> <<>>, isnil |-> TRUE, err |-> err]

\* The size of the record of the i-th returned Write.
RecordSize(i) == Len(written[i].value) + ChecksumSize

\* C11: a value whose Write returned an offset without error is read back
\* whole and without error at that offset, the empty value included, whatever
\* was written before or after it.
C11_ValueRoundTrip ==
    \A i \in WIdx : written[i].err = "nil" =>
        Read(VFile, written[i].offset, Len(written[i].value)) = ReadBack(written[i].value)

\* C11 witness: the empty value has been written without error, with a value
\* written before it and one after it.
C11_Witness ==
    \E h, i, j \in WIdx :
        /\ written[h].seq < written[i].seq
        /\ written[i].seq < written[j].seq
        /\ written[h].err = "nil"
        /\ written[i].err = "nil"
        /\ written[j].err = "nil"
        /\ written[i].value = <<>>
        /\ written[h].value # <<>>

\* The valueFile objects opened: the opens that returned one.
OkOpens == SelectSeq(vreopened, LAMBDA r : r.ok)

\* The Offset the valueFile object numbered k started with.
Base(k) == IF k = 0 THEN 0 ELSE OkOpens[k].after

RECURSIVE SumSizes(_, _)
SumSizes(s, k) ==
    IF s = <<>> THEN 0
    ELSE (IF s[1].file = k THEN Len(s[1].value) + ChecksumSize ELSE 0) + SumSizes(Tail(s), k)

\* C12: for every interleaving of the Write calls of several callers, the
\* calls that returned without error have distinct offsets and records
\* [offset, offset + len(v) + 4) that do not overlap, once all calls have
\* returned Offset is the initial Offset plus the sum of len(v) + 4 over the
\* values written, and each value is read back at the offset its Write returned.
C12_ConcurrentWritesDisjoint ==
    /\ \A i, j \in WIdx : (i < j /\ written[i].err = "nil" /\ written[j].err = "nil") =>
          /\ written[i].offset # written[j].offset
          /\ ~Overlap(written[i].offset, RecordSize(i), written[j].offset, RecordSize(j))
    /\ (\A p \in Procs : wpc[p] = "idle") =>
          /\ Offset = Base(FileNo) + SumSizes(written, FileNo)
          /\ (\A i \in WIdx : written[i].err = "nil") =>
                \A i \in WIdx :
                    Read(VFile, written[i].offset, Len(written[i].value)).value
                        = written[i].value

\* C12 witness: all calls have returned without error, and two of them, of
\* different callers and with values of different sizes, ran at the same time.
C12_Witness ==
    /\ \A p \in Procs : wpc[p] = "idle"
    /\ Len(written) = MaxWrites
    /\ \A i \in WIdx : written[i].err = "nil"
    /\ \E i, j \in WIdx :
          /\ i < j
          /\ written[j].start < i
          /\ Len(written[i].value) # Len(written[j].value)

\* C15 as stated: in every reachable state the length of the file is Offset.
C15_LengthEqualsOffset == Len(VFile) = Offset

\* Every Write call started on the valueFile object in use has returned
\* without error.
AllWritten ==
    /\ \A p \in Procs : wpc[p] = "idle"
    /\ \A i \in WIdx : written[i].file = FileNo => written[i].err = "nil"

\* C15 amended: the length of the file is never more than Offset, and it is
\* Offset whenever every Write call started on the valueFile has returned
\* without error.
C15_LengthEqualsOffsetAtRest ==
    /\ Len(VFile) <= Offset
    /\ AllWritten => Len(VFile) = Offset

\* C15 witness: two Write calls on the valueFile have returned without error
\* and none is running.
C15_Witness ==
    /\ AllWritten
    /\ \E i, j \in WIdx : i < j /\ written[i].file = FileNo /\ written[j].file = FileNo
    /\ Len(VFile) > ChecksumSize

\* C16: a Write that returns without error returns the Offset before its
\* atomic add and adds len(value) + 4 to Offset; the first Write on a new file
\* returns 0; and a Write that starts after the previous Write returned
\* returns the previous offset plus the previous value's length plus 4.
C16_SequentialWritesContiguous ==
    \A i \in WIdx : written[i].err = "nil" =>
        /\ written[i].offset = written[i].pre
        /\ written[i].post = written[i].pre + Len(written[i].value) + ChecksumSize
        /\ (written[i].seq = 1 /\ written[i].file = 0) => written[i].offset = 0
        /\ \A j \in WIdx :
              (/\ written[j].err = "nil"
               /\ written[j].seq = written[i].seq + 1
               /\ written[j].start >= i
               /\ written[j].file = written[i].file)
              => written[j].offset = written[i].offset + Len(written[i].value) + ChecksumSize

\* C16 witness: three Write calls, one after the other, have returned without
\* error on the new file.
C16_Witness ==
    \E h, i, j \in WIdx :
        /\ written[h].seq = 1 /\ written[i].seq = 2 /\ written[j].seq = 3
        /\ written[i].start >= h /\ written[j].start >= i
        /\ written[h].err = "nil" /\ written[i].err = "nil" /\ written[j].err = "nil"
        /\ written[j].file = 0
        /\ written[h].value # <<>>

\* C17: an open of an existing value file sets Offset to the size of the file,
\* every Write on the valueFile it returned is placed at or beyond that size,
\* and the values written without error before the open are still read back
\* at their offsets.
C17_ReopenResumesAtEnd ==
    /\ \A k \in 1..Len(vreopened) : vreopened[k].ok => vreopened[k].after = vreopened[k].size
    /\ \A i \in WIdx : written[i].file >= 1 => written[i].at >= OkOpens[written[i].file].size
    /\ \A p \in Procs :
          (wpc[p] = "write" /\ wcur[p].file >= 1) => wcur[p].offset >= OkOpens[wcur[p].file].size
    /\ \A i \in WIdx : (written[i].err = "nil" /\ written[i].file < FileNo) =>
          Read(VFile, written[i].offset, Len(written[i].value)) = ReadBack(written[i].value)

\* C17 witness: a value written before the open and a value written after it
\* have both returned without error.
C17_Witness ==
    \E i, j \in WIdx :
        /\ written[i].file = 0
        /\ written[j].file = 1
        /\ written[i].err = "nil"
        /\ written[j].err = "nil"
        /\ written[j].at > 0

\* C18: a Write whose positioned write took fewer than len(value) + 4 bytes
\* fails with ErrIncompleteValue, whether or not the positioned write reported
\* an error.
C18_ShortWriteIsIncompleteValue ==
    \A i \in WIdx : written[i].n < RecordSize(i) => written[i].err = "ErrIncompleteValue"

\* The number of inverted bits in the record of the i-th returned Write.
FlippedIn(i) ==
    Cardinality({x \in flipped :
                    x[1] >= written[i].at /\ x[1] < written[i].at + RecordSize(i)})

\* C13: after one bit of a stored value or of its 4-byte suffix has been
\* inverted, Read over that record fails with ErrBadValueChecksum and returns
\* no bytes.
C13_BitFlipIsBadChecksum ==
    cuts = 0 =>
        \A i \in WIdx : (written[i].err = "nil" /\ FlippedIn(i) = 1) =>
            Read(VFile, written[i].offset, Len(written[i].value))
                = ReadFails("ErrBadValueChecksum")

\* C13 witness: a bit of the value bytes of a record written without error is
\* inverted.
C13_Witness ==
    /\ cuts = 0
    /\ \E i \in WIdx :
          /\ written[i].err = "nil"
          /\ FlippedIn(i) = 1
          /\ \E x \in flipped :
                x[1] >= written[i].at /\ x[1] < written[i].at + Len(written[i].value)

\* C14: when the file was cut inside the record of a value written without
\* error, Read of that record fails with ErrIncompleteValue and returns nil.
C14_TruncatedReadIsIncompleteValue ==
    \A i \in WIdx :
        (/\ written[i].err = "nil"
         /\ cuts > 0
         /\ Len(VFile) > written[i].at
         /\ Len(VFile) < written[i].at + RecordSize(i))
        => Read(VFile, written[i].offset, Len(written[i].value))
               = ReadFails("ErrIncompleteValue")

\* ------------------------------------------- claims on the segment layout
\* The Append calls on the segment object in use that returned one of errs.
OnSegment(errs) == {i \in AIdx : appended[i].seg = SegNo /\ appended[i].err \in errs}

\* The header slots of the calls in S are the consecutive 16-byte slots of
\* [8, front cursor) and their bodies fill [back cursor, capacity).
Packed(S) ==
    /\ Front(Space) = ReservedPrefix + HeaderSize * Cardinality(S)
    /\ {appended[i].headerOffset : i \in S}
          = {ReservedPrefix + HeaderSize * m : m \in 0..(Cardinality(S) - 1)}
    /\ {b \in 0..(size - 1) :
            \E i \in S : /\ b >= appended[i].dataOffset
                         /\ b < appended[i].dataOffset + Len(appended[i].data)}
          = Back(Space)..(size - 1)
    /\ \A i, j \in S : i # j =>
          ~Overlap(appended[i].dataOffset, Len(appended[i].data),
                   appended[j].dataOffset, Len(appended[j].data))

\* C19 as stated: on a fresh segment, once all Append calls have returned, the
\* front cursor is 8 + 16k for the k calls that returned nil, their headers are
\* the consecutive slots of [8, 8 + 16k) and their bodies fill
\* [back cursor, capacity), whatever calls failed.
C19_SuccessesPacked ==
    ((\A p \in Procs : apc[p] = "idle") /\ FreshSegment(SegNo)) => Packed(OnSegment({"nil"}))

\* C19 amended: the same with the calls whose header or body write failed
\* counted with the calls that returned nil.
C19_AllocationsPacked ==
    ((\A p \in Procs : apc[p] = "idle") /\ FreshSegment(SegNo))
        => Packed(OnSegment({"nil", "EIO"}))

\* C19 witness: all calls have returned, one with nil, one with a write error
\* and one with ErrInsufficientSpace.
C19_Witness ==
    /\ \A p \in Procs : apc[p] = "idle"
    /\ FreshSegment(SegNo)
    /\ Cardinality(OnSegment({"nil"})) >= 1
    /\ Cardinality(OnSegment({"EIO"})) >= 1
    /\ Cardinality(OnSegment({"ErrInsufficientSpace"})) >= 1

\* The j-th returned Append started after the i-th returned nil, on the same
\* segment, and returned nil too.
AppendedAfter(i, j) ==
    /\ appended[i].err = "nil"
    /\ appended[j].err = "nil"
    /\ appended[j].start >= i
    /\ appended[j].seg = appended[i].seg

C30_FailureOnlyWhenNoRoom ==
    \A i \in 1..Len(returned) :
        ~returned[i].ok =>
            returned[i].used + returned[i].h + returned[i].d > AllocCapacity - ReservedPrefix

\* C30 amended: an Allocate returns ok=false only when its own request does
\* not fit in the space left by the allocations that succeeded and by the
\* requests of the calls that were between their add and their revert at the
\* moment of its add; with no such call in flight, only when its request does
\* not fit in the space left by the allocations that succeeded.
C30_FailureOnlyWhenCrowded ==
    \A i \in 1..Len(returned) :
        ~returned[i].ok =>
            returned[i].used + returned[i].pend + returned[i].h + returned[i].d
                > AllocCapacity - ReservedPrefix

\* A call whose request fits has failed inside the window of an overrunning
\* call, after a call that failed with nothing else in flight.
C30_Witness ==
    \E i, j \in 1..Len(returned) :
        /\ ~returned[i].ok /\ returned[i].pend > 0
        /\ returned[i].used + returned[i].h + returned[i].d <= AllocCapacity - ReservedPrefix
        /\ ~returned[j].ok /\ returned[j].pend = 0

\* ------------------------------------------------------------ file names
fileTypeWal == 1
fileTypeValue == 3

\* binary.BigEndian.PutUint64 of a 64-bit id held as four 16-bit limbs.
PutUint64(id) ==
    <<id[1] \div Byte, id[1] % Byte, id[2] \div Byte, id[2] % Byte,
      id[3] \div Byte, id[3] % Byte, id[4] \div Byte, id[4] % Byte>>

\* hex.EncodeToString: two characters for each byte, the high four bits first,
\* from the table "0123456789abcdef".
HexTable == <<"0", "1", "2", "3", "4", "5", "6", "7", "8", "9", "a", "b", "c", "d", "e", "f">>
EncodeToString(bytes) ==
    [i \in 1..(2 * Len(bytes)) |->
        IF i % 2 = 1 THEN HexTable[(bytes[(i + 1) \div 2] \div 16) + 1]
        ELSE HexTable[(bytes[i \div 2] % 16) + 1]]

getValueFileName(fileId) == EncodeToString(<<fileTypeValue>> \o PutUint64(fileId))

getWalSegmentFileNameValueTag(segmentId) == getValueFileName(segmentId)
getWalSegmentFileName(segmentId) == EncodeToString(<<fileTypeWal>> \o PutUint64(segmentId))

\* The ids the names are computed for: 0, the largest 64-bit id and ids whose
\* bytes differ from one another in one place only.
Ids == {<<a, b, c, d>> : a \in {0, Limb - 1}, b \in {0, Limb - 1},
                         c \in {0, Limb - 1}, d \in {0, 258, Limb - 1}}

GetValueFileName(id) ==
    /\ Len(names) < MaxNames
    /\ names' = Append(names, [type |-> fileTypeValue, id |-> id,
                               name |-> getValueFileName(id)])
    /\ UNCHANGED <<allocVars, segVars, valueVars, syncs, encoded, db, manager, values, single>>

GetWalSegmentFileName(id) ==
    /\ Len(names) < MaxNames
    /\ names' = Append(names, [type |-> fileTypeWal, id |-> id,
                               name |-> getWalSegmentFileName(id)])
    /\ UNCHANGED <<allocVars, segVars, valueVars, syncs, encoded, db, manager, values, single>>

NameNext ==
    \/ \E id \in Ids : GetValueFileName(id)
    \/ \E id \in Ids : GetWalSegmentFileName(id)

NameSpec == SmallInit /\ [][NameNext]_vars

\* What a reader of a name does: hex.DecodeString, the value of each pair of
\* characters, and the id as the big-endian number of bytes 2 to 9.
HexValue(c) == CHOOSE v \in 0..15 : HexTable[v + 1] = c
DecodeString(str) ==
    [i \in 1..(Len(str) \div 2) |-> HexValue(str[2 * i - 1]) * 16 + HexValue(str[2 * i])]
DecodedId(str) ==
    LET b == DecodeString(str)
    IN  <<b[2] * Byte + b[3], b[4] * Byte + b[5], b[6] * Byte + b[7], b[8] * Byte + b[9]>>
LowerHex == {HexTable[v] : v \in 1..16}

\* The i-th most significant byte of a 64-bit id, by division.
ByteOf(id, i) ==
    LET limb == id[(i + 1) \div 2]
    IN  IF i % 2 = 1 THEN limb \div Byte ELSE limb % Byte

\* C21: every name is 18 lower-case hexadecimal characters that decode to 9
\* bytes, the type tag (3 for a value file, 1 for a WAL segment) and then the
\* id as 8 big-endian bytes; decoding the name gives back the id, and two
\* calls that differ in the id or in the file type never give the same name.
C21_NamesDecodeToTypeAndId ==
    /\ \A i \in 1..Len(names) :
        LET n == names[i]
            b == DecodeString(n.name)
        IN  /\ Len(n.name) = 18
            /\ \A k \in 1..18 : n.name[k] \in LowerHex
            /\ Len(b) = 9
            /\ b[1] = n.type
            /\ \A k \in 1..8 : b[k + 1] = ByteOf(n.id, k)
            /\ DecodedId(n.name) = n.id
    /\ \A i, j \in 1..Len(names) :
        (names[i].type # names[j].type \/ names[i].id # names[j].id)
            => names[i].name # names[j].name

\* The name of value file 0xffffffffffffffff and the name of WAL segment 0, and
\* a value file and a WAL segment of the same id, have been computed.
C21_Witness ==
    /\ Len(names) = 2
    /\ \/ /\ names[1].type = fileTypeValue /\ names[1].id = <<Limb - 1, Limb - 1, Limb - 1, Limb - 1>>
          /\ names[2].type = fileTypeWal /\ names[2].id = <<0, 0, 0, 0>>
       \/ /\ names[1].type = fileTypeValue /\ names[2].type = fileTypeWal
          /\ names[1].id = names[2].id /\ names[1].id = <<0, 0, 0, 258>>

\* ------------------------------------------------------- walSegment.Sync
\* What Sync returns: File's own result when File implements CanSync, nil
\* when it does not.
SyncReturnNil(canSync, fileErr) == "nil"
SyncReturn(canSync, fileErr) == IF canSync THEN fileErr ELSE "nil"

\* One call of Sync on the open segment. File is an interface value: canSync
\* says whether the File of this call implements CanSync, fileErr is what its
\* Sync returns.
Sync(canSync, fileErr) ==
    /\ Len(syncs) < MaxSyncs
    /\ syncs' = Append(syncs, [canSync |-> canSync, called |-> canSync,
                               fileErr |-> fileErr,
                               err |-> SyncReturn(canSync, fileErr)])
    /\ UNCHANGED <<allocVars, segVars, valueVars, names, encoded, db, manager, values, single>>

SyncNext ==
    \/ SegNext
    \/ \E fileErr \in {"nil", "EIO"} : Sync(TRUE, fileErr)
    \/ Sync(FALSE, "nil")

SyncSpec == SmallInit /\ [][SyncNext]_vars

\* C22: Sync returns nil without calling anything when File has no Sync of its
\* own, returns exactly what File's Sync returned when it has, and a step of
\* Sync leaves the allocator word and every byte of the file as they were.
C22_SyncReturnsFileResult ==
    [][ /\ \A i \in 1..Len(syncs') :
            /\ ~syncs'[i].canSync => (syncs'[i].err = "nil" /\ ~syncs'[i].called)
            /\ syncs'[i].canSync => (syncs'[i].called /\ syncs'[i].err = syncs'[i].fileErr)
        /\ syncs' # syncs => (Space' = Space /\ File' = File) ]_vars

\* Sync has failed with File's error after an Append wrote to the segment, and
\* has returned nil for a File without Sync.
C22_Witness ==
    /\ Len(appended) > 0 /\ appended[1].err = "nil"
    /\ Len(syncs) = 2
    /\ syncs[1].canSync /\ syncs[1].err = "EIO"
    /\ ~syncs[2].canSync /\ syncs[2].err = "nil"

\* --------------------------------------------------- walTransaction codec
\* The changes and the transactions that are encoded: Set and Delete changes,
\* a Delete that carries a value, empty and longer keys and values, lists of
\* up to MaxEntries changes.
Changes ==
    {[Type |-> walTransactionChangeTypeSet, Key |-> <<107>>, Value |-> <<118>>],
     [Type |-> walTransactionChangeTypeSet, Key |-> <<107, 118>>, Value |-> <<>>],
     [Type |-> walTransactionChangeTypeDelete, Key |-> <<107>>, Value |-> <<>>],
     [Type |-> walTransactionChangeTypeDelete, Key |-> <<107>>, Value |-> <<118>>]}
EntryLists == UNION {[1..n -> Changes] : n \in 0..MaxEntries}
CodecTransactions ==
    {[TransactionId |-> id, Timestamp |-> 6, HeapId |-> 0, ValueFileId |-> 5,
      Entries |-> e] : id \in {1, 258}, e \in EntryLists}

\* The transaction of a list of changes repeated a number of times.
Repeated(t, copies) ==
    [t EXCEPT !.Entries = [i \in 1..(Len(t.Entries) * copies) |->
                                t.Entries[((i - 1) % Len(t.Entries)) + 1]]]
EncodedTransaction == Repeated(encoded.txn, encoded.copies)

\* The number a big-endian byte string stands for.
RECURSIVE BigEndianValue(_)
BigEndianValue(b) ==
    IF b = <<>> THEN 0
    ELSE BigEndianValue(SubSeq(b, 1, Len(b) - 1)) * Byte + b[Len(b)]

\* decode, the reader of what Encode wrote: the four 8-byte fields, the 2-byte
\* count, then as many changes as the count says, each behind its 4-byte
\* length: the type byte, the key behind its length and, for a Set, the value
\* behind its length. It fails when a length or the count runs past the bytes,
\* when a change does not fill its length, when bytes are left over, and when a
\* type byte is neither Set nor Delete.
Field(b, pos) ==
    IF pos + 3 > Len(b) THEN [ok |-> FALSE, bytes |-> <<>>, next |-> pos]
    ELSE LET n == BigEndianValue(SubSeq(b, pos, pos + 3))
         IN  IF pos + 3 + n > Len(b) THEN [ok |-> FALSE, bytes |-> <<>>, next |-> pos]
             ELSE [ok |-> TRUE, bytes |-> SubSeq(b, pos + 4, pos + 3 + n),
                   next |-> pos + 4 + n]

DecodeChange(c) ==
    IF c = <<>> \/ c[1] \notin {walTransactionChangeTypeSet, walTransactionChangeTypeDelete}
    THEN [ok |-> FALSE, change |-> <<>>]
    ELSE LET key == Field(c, 2)
             value == Field(c, key.next)
         IN  IF ~key.ok THEN [ok |-> FALSE, change |-> <<>>]
             ELSE IF c[1] = walTransactionChangeTypeDelete
                  THEN IF key.next = Len(c) + 1
                       THEN [ok |-> TRUE,
                             change |-> [Type |-> c[1], Key |-> key.bytes, Value |-> <<>>]]
                       ELSE [ok |-> FALSE, change |-> <<>>]
             ELSE IF value.ok /\ value.next = Len(c) + 1
                  THEN [ok |-> TRUE,
                        change |-> [Type |-> c[1], Key |-> key.bytes, Value |-> value.bytes]]
                  ELSE [ok |-> FALSE, change |-> <<>>]

RECURSIVE DecodeEntries(_, _, _)
DecodeEntries(b, pos, count) ==
    IF count = 0 THEN [ok |-> pos = Len(b) + 1, entries |-> <<>>]
    ELSE LET framed == Field(b, pos)
             change == DecodeChange(framed.bytes)
             rest == DecodeEntries(b, framed.next, count - 1)
         IN  IF framed.ok /\ change.ok /\ rest.ok
             THEN [ok |-> TRUE, entries |-> <<change.change>> \o rest.entries]
             ELSE [ok |-> FALSE, entries |-> <<>>]

Decode(b) ==
    IF Len(b) < 34 THEN [ok |-> FALSE, txn |-> NoEntries]
    ELSE LET entries == DecodeEntries(b, 35, BigEndianValue(SubSeq(b, 33, 34)))
         IN  IF ~entries.ok THEN [ok |-> FALSE, txn |-> NoEntries]
             ELSE [ok |-> TRUE,
                   txn |-> [TransactionId |-> BigEndianValue(SubSeq(b, 1, 8)),
                            Timestamp |-> BigEndianValue(SubSeq(b, 9, 16)),
                            HeapId |-> BigEndianValue(SubSeq(b, 17, 24)),
                            ValueFileId |-> BigEndianValue(SubSeq(b, 25, 32)),
                            Entries |-> entries.entries]]

\* One call of walTransaction.Encode, for a transaction of up to MaxEntries
\* changes or of one change repeated 65536 times.
Encode(t, copies) ==
    /\ ~encoded.done
    /\ copies > 1 => (t.TransactionId = 1 /\ t.Entries = <<[Type |-> walTransactionChangeTypeDelete,
                                                              Key |-> <<107>>, Value |-> <<>>]>>)
    /\ encoded' = [txn |-> t, copies |-> copies, done |-> TRUE, damage |-> "none", with |-> 0]
    /\ UNCHANGED <<allocVars, segVars, valueVars, names, syncs, db, manager, values, single>>

\* The bytes Encode returned, with what has been overwritten in them since.
EncodedBytes ==
    IF ~encoded.done THEN <<>>
    ELSE LET b == EncodeTransaction(EncodedTransaction)
         IN  IF encoded.damage = "none" THEN b
             ELSE [i \in 1..Len(b) |->
                    IF encoded.damage = "count" /\ i = 33 THEN encoded.with \div Byte
                    ELSE IF encoded.damage = "count" /\ i = 34 THEN encoded.with % Byte
                    ELSE IF encoded.damage = "type" /\ i = 39 THEN encoded.with
                    ELSE b[i]]

\* Malformed input for decode: the count of an encoding is overwritten by
\* another count.
RewriteCount(c) ==
    /\ encoded.done /\ encoded.damage = "none"
    /\ c # BigEndianValue(SubSeq(EncodedBytes, 33, 34))
    /\ encoded' = [encoded EXCEPT !.damage = "count", !.with = c]
    /\ UNCHANGED <<allocVars, segVars, valueVars, names, syncs, db, manager, values, single>>

\* Malformed input for decode: the type byte of the first change, behind the
\* 34 bytes of the fields and the 4 bytes of its length, is overwritten.
RewriteType(b) ==
    /\ encoded.done /\ encoded.damage = "none"
    /\ Len(encoded.txn.Entries) >= 1
    /\ encoded' = [encoded EXCEPT !.damage = "type", !.with = b]
    /\ UNCHANGED <<allocVars, segVars, valueVars, names, syncs, db, manager, values, single>>

CodecNext ==
    \/ \E t \in CodecTransactions, copies \in {1, Limb} : Encode(t, copies)
    \/ \E c \in 0..(MaxEntries + 1) : RewriteCount(c)
    \/ \E b \in {2, Byte - 1} : RewriteType(b)

CodecSpec == SmallInit /\ [][CodecNext]_vars

\* The changes of the encoding b from position pos on are the changes of the
\* list, each in its frame: the type byte first, the key, the value of a Set,
\* nothing behind the key of a Delete. Nothing is left behind the last one.
RECURSIVE EntriesLaidOut(_, _, _)
EntriesLaidOut(b, pos, entries) ==
    IF entries = <<>> THEN pos = Len(b) + 1
    ELSE LET e == entries[1]
             framed == Field(b, pos)
             c == framed.bytes
             key == Field(c, 2)
             value == Field(c, key.next)
         IN  /\ framed.ok
             /\ c # <<>> /\ c[1] = e.Type
             /\ e.Type \in {walTransactionChangeTypeSet, walTransactionChangeTypeDelete}
             /\ key.ok /\ key.bytes = e.Key
             /\ IF e.Type = walTransactionChangeTypeSet
                THEN value.ok /\ value.bytes = e.Value /\ value.next = Len(c) + 1
                ELSE key.next = Len(c) + 1
             /\ EntriesLaidOut(b, framed.next, Tail(entries))

\* C23: Encode writes TransactionId, Timestamp, HeapId and ValueFileId as
\* 8-byte big-endian numbers, then a 2-byte big-endian count equal to the
\* number of entries, then the entries in list order, each beginning with its
\* type byte (0 Set, 1 Delete); the value is written for a Set and never for a
\* Delete, so that a Delete encodes the same with and without a value.
C23_EncodeLayout ==
    (encoded.done /\ encoded.damage = "none") =>
        LET t == EncodedTransaction
            b == EncodedBytes
        IN  /\ Len(b) >= 34
            /\ BigEndianValue(SubSeq(b, 1, 8)) = t.TransactionId
            /\ BigEndianValue(SubSeq(b, 9, 16)) = t.Timestamp
            /\ BigEndianValue(SubSeq(b, 17, 24)) = t.HeapId
            /\ BigEndianValue(SubSeq(b, 25, 32)) = t.ValueFileId
            /\ BigEndianValue(SubSeq(b, 33, 34)) = Len(t.Entries)
            /\ EntriesLaidOut(b, 35, t.Entries)
            /\ \A i \in 1..Len(t.Entries) :
                t.Entries[i].Type = walTransactionChangeTypeDelete =>
                    EncodeChange(t.Entries[i])
                        = EncodeChange([t.Entries[i] EXCEPT !.Value = <<>>])

NoDeleteValue(t) ==
    \A i \in 1..Len(t.Entries) :
        t.Entries[i].Type = walTransactionChangeTypeDelete => t.Entries[i].Value = <<>>

\* C24: decode gives back every encoded transaction whose Delete changes carry
\* no value, and fails when the declared count does not match the bytes that
\* follow it or a type byte is neither 0 nor 1.
C24_DecodeInvertsEncode ==
    /\ (encoded.done /\ encoded.damage = "none" /\ NoDeleteValue(encoded.txn)) =>
            Decode(EncodedBytes) = [ok |-> TRUE, txn |-> EncodedTransaction]
    /\ encoded.damage \in {"count", "type"} => ~Decode(EncodedBytes).ok

\* ------------------------------------------------- DB.Close and the writer
\* db.writeChannel      the transactions buffered in the write channel
\* db.stopWriteChannel  the futures buffered in the stop channel (capacity 1),
\*                      each named by the caller of Close that made it
\* db.writer            where backgroundWriter is: "select", "reply" (it has
\*                      taken a future and is about to send on it), "exited"
\* db.stopResult        the future backgroundWriter has taken
\* db.printed           the transactions backgroundWriter has taken and printed
\* db.close             for each caller of Close: "idle", "wait" (it has sent
\*                      its future and receives on it), "returned", and what
\*                      it returned
\* db.first             the caller whose Close was the first

\* A commit puts a transaction in the write channel; it blocks while the
\* buffer is full.
Commit(txn) ==
    /\ db.commits < MaxCommits
    /\ Len(db.writeChannel) < PendingWritesBuffer
    /\ db' = [db EXCEPT !.writeChannel = Append(@, txn), !.commits = @ + 1]
    /\ UNCHANGED <<allocVars, segVars, valueVars, names, syncs, encoded, manager, values, single>>

\* Close up to its receive: the future is made and sent on the stop channel,
\* which blocks while the one slot of that channel is taken.
CloseSend(c) ==
    /\ db.close[c].pc = "idle"
    /\ Len(db.stopWriteChannel) < 1
    /\ db' = [db EXCEPT !.stopWriteChannel = Append(@, c),
                        !.close[c].pc = "wait",
                        !.first = IF @ = 0 THEN c ELSE @]
    /\ UNCHANGED <<allocVars, segVars, valueVars, names, syncs, encoded, manager, values, single>>

\* The first case of the select: a transaction is taken and printed.
WriterTakeTxn ==
    /\ db.writer = "select"
    /\ db.writeChannel # <<>>
    /\ db' = [db EXCEPT !.writeChannel = Tail(@),
                        !.printed = Append(@, Head(db.writeChannel))]
    /\ UNCHANGED <<allocVars, segVars, valueVars, names, syncs, encoded, manager, values, single>>

\* The second case of the select: a future is taken from the stop channel.
WriterTakeStop ==
    /\ db.writer = "select"
    /\ db.stopWriteChannel # <<>>
    /\ db' = [db EXCEPT !.stopWriteChannel = Tail(@),
                        !.stopResult = Head(db.stopWriteChannel),
                        !.writer = "reply"]
    /\ UNCHANGED <<allocVars, segVars, valueVars, names, syncs, encoded, manager, values, single>>

\* What the send of nil on the future does to the caller that receives on it,
\* and where backgroundWriter is after it.
ReplyDropped(close, c) == close
Reply(close, c) == [close EXCEPT ![c] = [pc |-> "returned", err |-> "nil"]]

AfterStopSelect == "select"
AfterStop == "exited"

\* stopResult <- nil; return. The future is unbuffered: the send happens when
\* the caller of Close receives, and Close returns what it received.
WriterReply ==
    /\ db.writer = "reply"
    /\ db.close[db.stopResult].pc = "wait"
    /\ db' = [db EXCEPT !.close = Reply(@, db.stopResult),
                        !.writer = AfterStop]
    /\ UNCHANGED <<allocVars, segVars, valueVars, names, syncs, encoded, manager, values, single>>

WriterNext == WriterTakeTxn \/ WriterTakeStop \/ WriterReply

DbNext ==
    \/ \E txn \in {1, 2} : Commit(txn)
    \/ \E c \in Closers : CloseSend(c)
    \/ WriterNext

\* The goroutine of backgroundWriter runs whenever it can.
DbSpec == SmallInit /\ [][DbNext]_vars /\ WF_vars(WriterNext)

\* C25: the first call of Close eventually returns nil, whatever the write
\* channel holds and however the background writer is scheduled.
C25_FirstCloseReturnsNil ==
    \A c \in Closers :
        (db.first = c) ~> (db.close[c].pc = "returned" /\ db.close[c].err = "nil")

\* The first Close has returned nil after the writer printed a transaction,
\* and the other caller of Close is waiting on its future.
C25_Witness ==
    /\ db.first # 0
    /\ db.close[db.first].pc = "returned" /\ db.close[db.first].err = "nil"
    /\ db.printed # <<>>
    /\ \E c \in Closers : db.close[c].pc = "wait"

\* C26: from the moment the writer has picked up the stop request it takes no
\* transaction from the write channel any more, and once Close has returned
\* the writer has exited; what is in the write channel stays there.
C26_CloseStopsBackgroundWrites ==
    [][ /\ (\E c \in Closers : db.close[c].pc = "returned") => db.writer = "exited"
        /\ db.writer \in {"reply", "exited"} =>
            /\ db'.writer \in {"reply", "exited"}
            /\ db'.printed = db.printed
            /\ Len(db'.writeChannel) >= Len(db.writeChannel)
            /\ SubSeq(db'.writeChannel, 1, Len(db.writeChannel)) = db.writeChannel ]_vars

\* Close has returned while transactions are still in the write channel, and
\* a commit has put another one behind them.
C26_Witness ==
    /\ \E c \in Closers : db.close[c].pc = "returned"
    /\ Len(db.writeChannel) = PendingWritesBuffer
    /\ db.commits = MaxCommits

\* ------------------------------------------------------------ walManager
\* manager.currentSegment  the id of the current segment, 0 while there is none
\* manager.Space           the allocator word of the current segment
\* manager.size            the logical size of the current segment, as the
\*                         manager counts it: the bytes of the appends it holds
\* manager.served          the appends that have returned

\* A transaction that fits in an empty segment only, and one too large for an
\* empty segment.
ThreeSets == Repeated(OneSet, 3)
FiveSets == Repeated(OneSet, 5)

SameSegmentId(id) == id
NextSegmentId(id) == id + 1

\* append of the manager: the transaction goes to the current segment (the
\* first segment is opened when there is none); when the segment answers
\* ErrInsufficientSpace the next segment is opened and the append is tried
\* there, once; a segment whose size has passed MaxWALSegmentSize with this
\* append is left for a new one afterwards.
ManagerAppend(txn) ==
    LET data == EncodeTransaction(txn)
        need == HeaderSize + Len(data)
        seg0 == IF manager.currentSegment = 0
                THEN [id |-> 1, Space |-> newFreeSpace(ManagerCapacity), size |-> 0]
                ELSE [id |-> manager.currentSegment, Space |-> manager.Space,
                      size |-> manager.size]
        a1 == Allocate(seg0.Space, HeaderSize, Len(data))
        seg1 == [id |-> NextSegmentId(seg0.id), Space |-> newFreeSpace(ManagerCapacity),
                 size |-> 0]
        a2 == Allocate(seg1.Space, HeaderSize, Len(data))
        landed == IF a1.ok THEN [seg0 EXCEPT !.Space = a1.word, !.size = @ + need]
                  ELSE IF a2.ok THEN [seg1 EXCEPT !.Space = a2.word, !.size = @ + need]
                  ELSE [seg1 EXCEPT !.Space = Revert(a2.word, a2.delta)]
        after == IF landed.size > MaxWALSegmentSize
                 THEN [id |-> NextSegmentId(landed.id),
                       Space |-> newFreeSpace(ManagerCapacity), size |-> 0]
                 ELSE landed
    IN  /\ Len(manager.served) < MaxManagerAppends
        /\ manager' =
            [currentSegment |-> after.id, Space |-> after.Space, size |-> after.size,
             served |-> Append(manager.served,
                [txn |-> txn.TransactionId, need |-> need,
                 current |-> manager.currentSegment,
                 tried |-> IF a1.ok THEN <<seg0.id>> ELSE <<seg0.id, seg1.id>>,
                 refused |-> ~a1.ok,
                 err |-> IF a1.ok \/ a2.ok THEN "nil" ELSE "ErrInsufficientSpace",
                 seg |-> IF a1.ok \/ a2.ok THEN landed.id ELSE 0,
                 sizeBefore |-> IF a1.ok THEN seg0.size ELSE 0,
                 sizeAfter |-> landed.size,
                 left |-> after.id])]
        /\ UNCHANGED <<allocVars, segVars, valueVars, names, syncs, encoded, db, values, single>>

ManagerNext == \E txn \in Transactions \cup {ThreeSets, FiveSets} : ManagerAppend(txn)

ManagerSpec == SmallInit /\ [][ManagerNext]_vars

\* C27: an append goes to the segment that is current when it is called; when
\* that segment has no room the segment with the next id is opened and the
\* append is tried there and nowhere else; the transaction that takes a
\* segment past MaxWALSegmentSize is written to that segment, and only after
\* it the next segment is started; nothing is written to a segment that is
\* already past the limit.
C27_ManagerAppendAndRotation ==
    \A i \in 1..Len(manager.served) :
        LET r == manager.served[i]
        IN  /\ r.tried[1] = (IF r.current = 0 THEN 1 ELSE r.current)
            /\ Len(r.tried) = (IF r.refused THEN 2 ELSE 1)
            /\ r.refused => r.tried[2] = r.tried[1] + 1
            /\ r.err = "nil" => r.seg = r.tried[Len(r.tried)]
            /\ r.err = "nil" => r.sizeBefore <= MaxWALSegmentSize
            /\ (r.err = "nil" /\ r.sizeAfter > MaxWALSegmentSize) =>
                    (r.seg = r.tried[Len(r.tried)] /\ r.left = r.seg + 1)
            /\ (r.err = "nil" /\ r.sizeAfter <= MaxWALSegmentSize) => r.left = r.seg
            /\ i > 1 => r.current = manager.served[i - 1].left

\* An append has been refused by the current segment and written to the next
\* one, another has taken its segment past the limit and was written to it,
\* and one has been refused twice.
C27_Witness ==
    /\ \E i \in 1..Len(manager.served) :
        manager.served[i].refused /\ manager.served[i].err = "nil"
            /\ manager.served[i].current # 0
    /\ \E i \in 1..Len(manager.served) :
        manager.served[i].err = "nil" /\ manager.served[i].sizeAfter > MaxWALSegmentSize
            /\ manager.served[i].sizeBefore > 0
    /\ \E i \in 1..Len(manager.served) : manager.served[i].err = "ErrInsufficientSpace"

\* ---------------------------------------------------------- valueManager
\* values.files    the files map: for each file id the valueFile it holds, a
\*                 valueFile being named by the number of the open that made
\*                 it, 0 for no entry
\* values.readers  the callers inside the shared section of the lock
\* values.writer   the caller inside the exclusive section, 0 for none
\* values.lookup   for each caller where its lookup is ("idle", "read" inside
\*                 the shared section, "upgrade" between the two sections,
\*                 "exclusive"), the id it looks up, and how many lookups had
\*                 returned when it began
\* values.opened   the valueFiles opened, each with its id
\* values.got      the lookups that have returned
\* values.started  number of lookups begun

\* The second look at the map, inside the exclusive section.
RecheckSkipped(files, id) == 0
Recheck(files, id) == files[id]

\* A lookup enters the shared section.
LookupBegin(p, id) ==
    /\ values.lookup[p].pc = "idle"
    /\ values.started < MaxLookups
    /\ values.writer = 0
    /\ values' = [values EXCEPT !.readers = @ \cup {p},
                                !.lookup[p] = [pc |-> "read", id |-> id,
                                               first |-> Len(values.got)],
                                !.started = @ + 1]
    /\ UNCHANGED <<allocVars, segVars, valueVars, names, syncs, encoded, db, manager, single>>

\* It reads the map and leaves the shared section: a hit is returned, a miss
\* goes on to the exclusive section.
LookupRead(p) ==
    LET l == values.lookup[p]
        found == values.files[l.id]
    IN  /\ l.pc = "read"
        /\ values' = [values EXCEPT
                !.readers = @ \ {p},
                !.lookup[p].pc = IF found # 0 THEN "idle" ELSE "upgrade",
                !.got = IF found # 0
                        THEN Append(@, [p |-> p, id |-> l.id, file |-> found, err |-> "nil",
                                        first |-> l.first])
                        ELSE @]
        /\ UNCHANGED <<allocVars, segVars, valueVars, names, syncs, encoded, db, manager, single>>

\* It enters the exclusive section, once no caller is in either section.
LookupUpgrade(p) ==
    /\ values.lookup[p].pc = "upgrade"
    /\ values.readers = {} /\ values.writer = 0
    /\ values' = [values EXCEPT !.writer = p, !.lookup[p].pc = "exclusive"]
    /\ UNCHANGED <<allocVars, segVars, valueVars, names, syncs, encoded, db, manager, single>>

\* Inside the exclusive section it looks again; an entry made meanwhile is
\* returned, otherwise the file is opened and, when the open succeeded,
\* inserted; it leaves the section and returns.
LookupCreate(p, openOk) ==
    LET l == values.lookup[p]
        found == Recheck(values.files, l.id)
        made == Len(values.opened) + 1
    IN  /\ l.pc = "exclusive"
        /\ found # 0 => openOk
        /\ values' = [values EXCEPT
                !.writer = 0,
                !.lookup[p].pc = "idle",
                !.files = IF found = 0 /\ openOk THEN [@ EXCEPT ![l.id] = made] ELSE @,
                !.opened = IF found = 0 /\ openOk THEN Append(@, l.id) ELSE @,
                !.got = Append(@, [p |-> p, id |-> l.id,
                                   file |-> IF found # 0 THEN found
                                            ELSE IF openOk THEN made ELSE 0,
                                   err |-> IF found # 0 \/ openOk THEN "nil" ELSE "EIO",
                                   first |-> l.first])]
        /\ UNCHANGED <<allocVars, segVars, valueVars, names, syncs, encoded, db, manager, single>>

LookupNext ==
    \/ \E p \in Procs, id \in FileIds : LookupBegin(p, id)
    \/ \E p \in Procs : LookupRead(p)
    \/ \E p \in Procs : LookupUpgrade(p)
    \/ \E p \in Procs, openOk \in BOOLEAN : LookupCreate(p, openOk)

LookupSpec == SmallInit /\ [][LookupNext]_vars

\* C28: in every interleaving of lookups at most one valueFile is opened and
\* inserted for a file id, every lookup of that id that returns a valueFile
\* returns that one, and the files map changes only in a step of the caller
\* that holds the exclusive section while no caller is in the shared one.
C28_CreateOnMissIsRaceFree ==
    [][ /\ \A i, j \in 1..Len(values'.opened) :
            values'.opened[i] = values'.opened[j] => i = j
        /\ \A i, j \in 1..Len(values'.got) :
            (values'.got[i].id = values'.got[j].id /\ values'.got[i].err = "nil"
                /\ values'.got[j].err = "nil")
                => values'.got[i].file = values'.got[j].file
        /\ values'.files # values.files =>
            (values.writer # 0 /\ values.readers = {} /\ values'.writer = 0) ]_vars

\* Two lookups of the same id that ran at the same time both missed in the
\* shared section; one opened the file and the other was given that file.
C28_Witness ==
    \E i, j \in 1..Len(values.got) :
        /\ i < j
        /\ values.got[i].p # values.got[j].p
        /\ values.got[i].id = values.got[j].id
        /\ values.got[j].first < i
        /\ values.got[i].err = "nil" /\ values.got[j].err = "nil"
        /\ Len(values.opened) = 1
        /\ values.lookup[values.got[j].p].pc = "idle"
        /\ values.started = 2

\* ------------------------------------- walSegment with one Offset counter
\* single.Offset    walSegment.Offset
\* single.File      the bytes of the segment file
\* single.pc        where each caller of Append is: "idle", or "write" between
\*                  the atomic add and the positioned write
\* single.cur       the Append a caller is running: the entry it built, the
\*                  offset it took, Offset after its add and its number
\* single.appended  the Append calls that have returned
\* single.started   number of Append calls started

\* The entry Append builds: the encoding behind 4 bytes that hold the length of
\* the whole entry.
Entry(txn) ==
    LET body == EncodeTransaction(txn)
    IN  BigEndian(4 + Len(body), 4) \o body

\* What Append returns as totalSize.
TotalSizeOffset(offset, n) == offset
TotalSize(offset, n) == offset + n

\* Append up to the positioned write: the entry is built and Offset moved on
\* by its length in one atomic add.
SingleAppendAdd(p, txn) ==
    LET buf == Entry(txn)
    IN  /\ single.pc[p] = "idle"
        /\ single.started < MaxSingleAppends
        /\ single' = [single EXCEPT
                !.Offset = @ + Len(buf),
                !.started = @ + 1,
                !.pc[p] = "write",
                !.cur[p] = [txn |-> txn, buf |-> buf, offset |-> single.Offset,
                            post |-> single.Offset + Len(buf),
                            seq |-> single.started + 1]]
        /\ UNCHANGED <<allocVars, segVars, valueVars, names, syncs, encoded, db, manager, values>>

\* w.File.WriteAt(buf, offset) and the return: the write succeeds, or it fails
\* after n bytes; either way offset + size is returned with the error.
SingleAppendWrite(p, n, err) ==
    LET c == single.cur[p]
    IN  /\ single.pc[p] = "write"
        /\ (n = Len(c.buf)) = (err = "nil")
        /\ single' = [single EXCEPT
                !.File = WriteAt(@, SubSeq(c.buf, 1, n), c.offset),
                !.pc[p] = "idle",
                !.cur[p] = NoSingleAppend,
                !.appended = Append(@,
                    [p |-> p, txn |-> c.txn, n |-> Len(c.buf), offset |-> c.offset,
                     post |-> c.post, totalSize |-> TotalSize(c.offset, Len(c.buf)),
                     err |-> err, atReturn |-> single.Offset,
                     alone |-> single.started = c.seq])]
        /\ UNCHANGED <<allocVars, segVars, valueVars, names, syncs, encoded, db, manager, values>>

SingleNext ==
    \/ \E p \in Procs, txn \in Transactions : SingleAppendAdd(p, txn)
    \/ \E p \in Procs : SingleAppendWrite(p, Len(single.cur[p].buf), "nil")
    \/ \E p \in Procs, n \in 0..MaxShort : SingleAppendWrite(p, n, "EIO")

SingleSpec == SmallInit /\ [][SingleNext]_vars

\* Where the entry of a returned Append lies and what it holds.
EntryInPlace(r) ==
    /\ r.n = 4 + Len(EncodeTransaction(r.txn))
    /\ r.totalSize - r.n = r.offset
    /\ r.err = "nil" =>
        /\ Len(single.File) >= r.totalSize
        /\ SubSeq(single.File, r.totalSize - r.n + 1, r.totalSize)
                = BigEndian(r.n, 4) \o EncodeTransaction(r.txn)
        /\ BigEndianValue(SubSeq(single.File, r.totalSize - r.n + 1, r.totalSize - r.n + 4))
                = r.n

\* C29 as stated: the totalSize an Append returns is the Offset counter of the
\* segment at the moment the call returns and is greater than 0, and the
\* entry lies in [totalSize - n, totalSize) with n = 4 + len(Encode(txn)) in
\* its first 4 bytes, also when other Append calls run at the same time.
C29_TotalSizeIsOffsetAtReturn ==
    \A i \in 1..Len(single.appended) :
        LET r == single.appended[i]
        IN  /\ r.totalSize = r.atReturn
            /\ r.totalSize > 0
            /\ EntryInPlace(r)

\* C29 amended: totalSize is the value the Offset counter had right after the
\* call's own atomic add, the end of its own entry; it is greater than 0, the
\* Offset counter at the return is at least totalSize and equals it when no
\* other Append has added since; the entry of a call that returned nil lies in
\* [totalSize - n, totalSize) with n in its first 4 bytes.
C29_TotalSizeIsEndOfOwnEntry ==
    \A i \in 1..Len(single.appended) :
        LET r == single.appended[i]
        IN  /\ r.totalSize = r.post
            /\ r.totalSize > 0
            /\ r.atReturn >= r.totalSize
            /\ r.alone => r.atReturn = r.totalSize
            /\ EntryInPlace(r)

\* An Append has returned nil with a totalSize below the Offset counter,
\* another Append having added before it wrote, and both entries are in the
\* file.
C29_Witness ==
    \E i, j \in 1..Len(single.appended) :
        /\ i # j
        /\ single.appended[i].err = "nil" /\ single.appended[j].err = "nil"
        /\ single.appended[i].totalSize < single.appended[i].atReturn
        /\ ~single.appended[i].alone
        /\ single.appended[j].offset = single.appended[i].totalSize

\* ------------------------------------- the prefix, accounting and encoding
RECURSIVE SumHeaders(_)
SumHeaders(s) ==
    IF s = <<>> THEN 0 ELSE (IF s[1].ok THEN s[1].h ELSE 0) + SumHeaders(Tail(s))

RECURSIVE SumData(_)
SumData(s) ==
    IF s = <<>> THEN 0 ELSE (IF s[1].ok THEN s[1].d ELSE 0) + SumData(Tail(s))

\* C31: no call returns ok=true with a headerOffset below 8 or with a data
\* range that ends beyond the capacity or begins inside the reserved prefix,
\* for header and data lengths from 0 on.
C31_PrefixNeverHandedOut ==
    \A i \in 1..Len(returned) : returned[i].ok =>
        /\ returned[i].headerOffset >= ReservedPrefix
        /\ returned[i].dataOffset >= ReservedPrefix
        /\ returned[i].dataOffset + returned[i].d <= AllocCapacity

\* C32: once every call has returned, the front cursor is 8 plus the header
\* lengths of the calls that returned ok=true and the back cursor is the
\* capacity minus their data lengths, whatever the calls that returned
\* ok=false did in between.
C32_QuiescentAccounting ==
    (\A p \in Procs : ~Pending(p)) =>
        /\ Front(f) = ReservedPrefix + SumHeaders(returned)
        /\ Back(f) = AllocCapacity - SumData(returned)

\* Capacities from 8 to 2^31 - 1.
Capacities == {8, 9, AllocCapacity, Limb - 1, Limb, Limb + 1, 2147483647}

\* C33: newFreeSpace(capacity) has the cursors (8, capacity) and capacity - 8
\* bytes of space, and after calls that all returned ok=true the space is
\* capacity - 8 minus the header and data bytes handed out.
C33_SpaceIsCapacityMinusHandedOut ==
    /\ \A c \in Capacities :
        /\ Current(newFreeSpace(c)) = <<ReservedPrefix, c>>
        /\ SpaceOf(newFreeSpace(c)) = c - ReservedPrefix
    /\ ((\A p \in Procs : ~Pending(p)) /\ (\A i \in 1..Len(returned) : returned[i].ok)) =>
            SpaceOf(f) = AllocCapacity - ReservedPrefix - Used

\* The cursors survive Encode followed by newFreeSpaceFromBytes, and the 8
\* encoded bytes hold the front cursor in bytes 0-3 and the back cursor in
\* bytes 4-7, most significant byte first.
EncodeRoundTrip(w) ==
    /\ Len(EncodeFreeSpace(w)) = 8
    /\ Current(newFreeSpaceFromBytes(EncodeFreeSpace(w))) = Current(w)
    /\ SubSeq(EncodeFreeSpace(w), 1, 4) = BigEndian(Front(w), 4)
    /\ SubSeq(EncodeFreeSpace(w), 5, 8) = BigEndian(Back(w), 4)

\* C34: an allocator rebuilt from the bytes of Encode has the cursors of the
\* allocator that was encoded, and Encode writes the front cursor big-endian
\* into bytes 0-3 and the back cursor into bytes 4-7; for the allocator in
\* every state it reaches and for fresh allocators of every capacity.
C34_EncodeRoundTrip ==
    /\ EncodeRoundTrip(f)
    /\ \A c \in Capacities : EncodeRoundTrip(newFreeSpace(c))

C34_Witness ==
    /\ \E i \in 1..Len(returned) :
           returned[i].ok /\ returned[i].h > 0 /\ returned[i].d > 0
    /\ \A p \in Procs : ~Pending(p)
    /\ Current(f) # <<ReservedPrefix, AllocCapacity>>
    /\ Current(newFreeSpaceFromBytes(EncodeFreeSpace(f))) = Current(f)

\* ------------------------------------- openWalSegment on the file it finds
\* Allocator words a file on disk may begin with: the cursors of a new
\* segment, of a segment with one header slot and 24 payload bytes in use, of
\* a full segment, and of a segment made with a capacity that is neither of
\* the capacities passed to openWalSegment.
FoundWords ==
    {newFreeSpace(SmallCapacity),
     Or64(Shl32(U64(ReservedPrefix + HeaderSize)), U64(SmallCapacity - 24)),
     Or64(Shl32(U64(30)), U64(30)),
     Or64(Shl32(U64(ReservedPrefix)), U64(300))}

\* The files openWalSegment may find: no bytes, fewer than 8 bytes, exactly
\* the 8 bytes of an allocator word, and an allocator word followed by more.
FoundFiles ==
    {<<>>, <<0, 0, 0>>, EncodeFreeSpace(newFreeSpace(SmallCapacity))}
        \cup {EncodeFreeSpace(w) \o <<0>> : w \in FoundWords}

\* openWalSegment is the first operation on the file; Append runs on the
\* segment it returned.
Opened == opens > 0 /\ reopened[Len(reopened)].ok

FoundAppendAllocate(p, txn) == Opened /\ AppendAllocate(p, txn)

FoundInit == InitButFile /\ File \in FoundFiles

FoundNext ==
    \/ \E readOk \in BOOLEAN : OpenWalSegment(readOk)
    \/ \E p \in Procs, txn \in Transactions : FoundAppendAllocate(p, txn)
    \/ \E p \in Procs : AppendInsufficientSpace(p)
    \/ \E p \in Procs : AppendWriteHeader(p)
    \/ \E p \in Procs : AppendWriteBody(p)

FoundSpec == FoundInit /\ [][FoundNext]_vars

WroteOnlyInside(off, n) ==
    /\ Len(File') >= Len(File)
    /\ \A k \in 1..Len(File) : (k <= off \/ k > off + n) => File'[k] = File[k]
    /\ \A k \in (Len(File) + 1)..Len(File') : (k <= off \/ k > off + n) => File'[k] = 0

BodyOf(c) == ReadAt(File, c.dataOffset, Len(c.data))

\* C36: within one Append the header write comes first and the body write
\* second: while the header is not written the body is not in the file; the
\* body write starts only after a header write that put all 16 header bytes
\* in place and touched nothing outside the header slot; a failed header
\* write ends the Append with the error and its body is not written; and
\* every change of the file is the header write or the body write of a
\* running Append, a body write being one whose header write succeeded.
C36_HeaderBeforeBody ==
    [][/\ \A p \in Procs :
            /\ apc[p] = "header" => BodyOf(acur[p]) # acur[p].data
            /\ apc'[p] = "body" =>
                \/ apc[p] = "body"
                \/ /\ apc[p] = "header"
                   /\ ReadAt(File', acur[p].headerOffset, HeaderSize)
                        = EncodeHeader(acur[p].txn, acur[p].dataOffset, Len(acur[p].data))
                   /\ WroteOnlyInside(acur[p].headerOffset, HeaderSize)
                   /\ BodyOf(acur[p])' # acur[p].data
            /\ (apc[p] = "header" /\ apc'[p] = "idle") =>
                /\ appended' = Append(appended, appended'[Len(appended')])
                /\ appended'[Len(appended')].err = "EIO"
                /\ appended'[Len(appended')].txn = acur[p].txn
                /\ WroteOnlyInside(acur[p].headerOffset, HeaderSize)
                /\ ReadAt(File', acur[p].dataOffset, Len(acur[p].data)) # acur[p].data
                /\ acur'[p] = NoAppend
       /\ File' # File =>
            \E p \in Procs :
                /\ apc'[p] # apc[p]
                /\ \/ apc[p] = "header" /\ WroteOnlyInside(acur[p].headerOffset, HeaderSize)
                   \/ apc[p] = "body" /\ WroteOnlyInside(acur[p].dataOffset, Len(acur[p].data))]_vars

\* C36 witness: one Append has ended with a write error leaving neither its
\* whole header nor its body in the file, and another has returned nil with
\* header and body in place.
C36_Witness ==
    \E i, j \in AIdx :
        /\ appended[i].err = "EIO"
        /\ ReadAt(File, appended[i].headerOffset, HeaderSize)
             # EncodeHeader(appended[i].txn, appended[i].dataOffset, Len(appended[i].data))
        /\ BodyOf(appended[i]) # appended[i].data
        /\ appended[j].err = "nil"
        /\ appended[j].seg = appended[i].seg
        /\ BodyOf(appended[j]) = appended[j].data
        /\ ReadAt(File, appended[j].headerOffset, HeaderSize)
             = EncodeHeader(appended[j].txn, appended[j].dataOffset, Len(appended[j].data))

\* ------------------------------------------------ a Write that has failed
\* C37: a Write that fails returns offset 0 with the error of the positioned
\* write or ErrIncompleteValue; Offset has been advanced by len(value) + 4 for
\* it and stays at or beyond the end of its range; and no other Write on the
\* same valueFile, returned or running, is placed on bytes of that range.
C37_FailedWriteKeepsRange ==
    \A i \in WIdx : written[i].err # "nil" =>
        /\ written[i].offset = 0
        /\ written[i].err \in {"EIO", "ErrIncompleteValue"}
        /\ written[i].at = written[i].pre
        /\ written[i].post = written[i].pre + RecordSize(i)
        /\ written[i].file = FileNo => Offset >= written[i].post
        /\ \A j \in WIdx : (j # i /\ written[j].file = written[i].file) =>
              ~Overlap(written[i].at, RecordSize(i), written[j].at, RecordSize(j))
        /\ \A p \in Procs : (wpc[p] = "write" /\ wcur[p].file = written[i].file) =>
              ~Overlap(written[i].at, RecordSize(i),
                       wcur[p].offset, Len(wcur[p].value) + ChecksumSize)

\* C37 witness: a Write of a value with bytes has failed at an offset beyond
\* 0, and a Write started after it returned has succeeded on the same
\* valueFile, right behind the range of the failed one.
C37_Witness ==
    \E i, j \in WIdx :
        /\ written[i].err # "nil"
        /\ written[i].value # <<>>
        /\ written[i].at > 0
        /\ written[j].start >= i
        /\ written[j].file = written[i].file
        /\ written[j].err = "nil"
        /\ written[j].offset = written[i].post

\* ------------------------------------------------ the checksum of a value
\* Values made of the same bytes in both orders, and the empty value.
ChecksumValues == {<<>>, <<97, 98>>, <<98, 97>>}

ChecksumNext ==
    \/ \E p \in Procs, value \in ChecksumValues : WriteAdd(p, value)
    \/ \E p \in Procs : WritePositioned(p)
    \/ \E openOk \in BOOLEAN : OpenValueFile(openOk)

ChecksumSpec == ValueInit /\ [][ChecksumNext]_vars

\* The 4 bytes stored after the value of the i-th returned Write.
Suffix(i) == ReadAt(VFile, written[i].offset + Len(written[i].value), ChecksumSize)

\* v and w consist of the same bytes, each as often in one as in the other.
SameBytes(v, w) ==
    /\ Len(v) = Len(w)
    /\ \A c \in {v[k] : k \in 1..Len(v)} \cup {w[k] : k \in 1..Len(w)} :
          Cardinality({k \in 1..Len(v) : v[k] = c})
              = Cardinality({k \in 1..Len(w) : w[k] = c})

\* C38 as stated: two values written without error that consist of the same
\* bytes, in whatever order, have the same 4-byte suffix in the file.
C38_ChecksumOrderIndependent ==
    \A i, j \in WIdx :
        (/\ written[i].err = "nil"
         /\ written[j].err = "nil"
         /\ SameBytes(written[i].value, written[j].value))
        => Suffix(i) = Suffix(j)

\* The 32-bit FNV-1 hash of the values, most significant byte first.
Fnv1Of(v) ==
    CASE v = <<>> -> <<129, 28, 157, 197>>
      [] v = <<97, 98>> -> <<112, 119, 45, 56>>
      [] v = <<98, 97>> -> <<111, 119, 43, 166>>

\* C38 amended: the suffix of a value written without error is the 32-bit
\* FNV-1 hash of its bytes taken in their order, most significant byte first;
\* it is the same for equal values whatever their offsets and the order in
\* which their writes completed, and it differs for the values ab and ba.
C38_ChecksumOfBytesInOrder ==
    /\ \A i \in WIdx : written[i].err = "nil" => Suffix(i) = Fnv1Of(written[i].value)
    /\ \A i, j \in WIdx :
          (written[i].err = "nil" /\ written[j].err = "nil") =>
              /\ written[i].value = written[j].value => Suffix(i) = Suffix(j)
              /\ (written[i].value = <<97, 98>> /\ written[j].value = <<98, 97>>)
                    => Suffix(i) # Suffix(j)

\* C38 witness: the same value has been written twice without error by
\* calls that ran at the same time and completed in the order opposite to the
\* order of their offsets, and the value with its bytes exchanged has been
\* written without error as well.
C38_Witness ==
    \E i, j, k \in WIdx :
        /\ i < j
        /\ written[i].err = "nil" /\ written[j].err = "nil" /\ written[k].err = "nil"
        /\ written[i].value = <<97, 98>>
        /\ written[j].value = <<97, 98>>
        /\ written[k].value = <<98, 97>>
        /\ written[i].offset > written[j].offset
        /\ written[j].start < i

\* ------------------------------------------------------ Close, called again
\* The callers whose Close has returned.
ReturnedClosers == {c \in Closers : db.close[c].pc = "returned"}

\* C39: at most one Close ever returns, and it is the one whose future the
\* background writer took; once a Close has returned the writer has exited,
\* takes nothing from the stop channel any more, and no other Close, whether
\* it waits on its future or has yet to send, returns in any later step.
C39_CloseIsSingleUse ==
    [][/\ Cardinality(ReturnedClosers') <= 1
       /\ ReturnedClosers' \subseteq {db'.first}
       /\ ReturnedClosers # {} =>
            /\ db.writer = "exited"
            /\ db'.writer = "exited"
            /\ ReturnedClosers' = ReturnedClosers
            /\ Len(db'.stopWriteChannel) >= Len(db.stopWriteChannel)
            /\ SubSeq(db'.stopWriteChannel, 1, Len(db.stopWriteChannel))
                 = db.stopWriteChannel]_vars

\* C39 witness: one Close has returned and the writer has exited, while another
\* Close has put its future in the stop channel and waits for the reply.
C39_Witness ==
    /\ ReturnedClosers # {}
    /\ db.writer = "exited"
    /\ \E c \in Closers \ ReturnedClosers :
          /\ db.close[c].pc = "wait"
          /\ db.stopWriteChannel = <<c>>
====
